---------------------------- MODULE Spec2Model ----------------------------
(***************************************************************************)
(* The scaffolding scripts of the FHEVM example hub:                       *)
(*   scripts/create-fhevm-example.js   (createExample)                     *)
(*   scripts/create-fhevm-category.js  (createCategory)                    *)
(* modelled as a state machine over the filesystem they read and write.    *)
(*                                                                         *)
(* A path is a sequence of segments (<<"contracts", "BlindAuction.sol">>), *)
(* so path.join is concatenation and path.basename the last segment.       *)
(* A file's content is a record; the manifest (package.json) is a text     *)
(* that JSON.parse either rejects or reads as an ordered list of fields.   *)
(***************************************************************************)
EXTENDS Integers, Sequences, FiniteSets, TLC

VARIABLES
  template,     \* fhevm-hardhat-template/: [dirs, files], files: path -> content
  repoFiles,    \* the artifact sources present under contracts/ and test/ of the repository
  destDirs,     \* directories present at and under outputDir (<<>> is outputDir itself)
  destFiles,    \* files under outputDir: path -> content
  pc,           \* position of the running script ("idle" before the first run)
  kind,         \* "example" | "category": which script runs
  name,         \* exampleName / categoryName
  config,       \* the catalog entry resolved at lines 35 (const config = ...)
  exitCode,     \* process exit status of the last finished run
  stdout,       \* console.log lines of the current run
  stderr,       \* console.error lines of the current run
  runs,         \* number of runs started
  pre,          \* the destination at the start of the current run: [dirs, files]
  wrote,        \* whether this run executed the manifest's writeFileSync
  produced,     \* (kind, name) -> the manifests successful runs of that request left
  \* BlindAuction.sol: the contract's storage, the chain's clock, the last call
  bids,           \* mapping(address => Bid): account -> [amount, exists]
  bidders,        \* address[]
  owner,          \* address
  auctionEndTime, \* uint256
  auctionEnded,   \* bool
  highestBidder,  \* address
  highestBid,     \* euint32, kept as the value it encrypts
  publicHandles,  \* the values FHE.makePubliclyDecryptable has been called on
  blockTimestamp, \* block.timestamp of the block transactions are mined in
  receipt         \* the last transaction: function, sender, outcome, events

\* the variables of the scripts and those of the contract
scripts == <<template, repoFiles, destDirs, destFiles, pc, kind, name, config,
             exitCode, stdout, stderr, runs, pre, wrote, produced>>

chain == <<bids, bidders, owner, auctionEndTime, auctionEnded, highestBidder,
           highestBid, publicHandles, blockTimestamp, receipt>>

vars == <<scripts, chain>>

\* no contract is deployed: the state of the chain while the scripts run
NoChain ==
  /\ bids = << >>
  /\ bidders = << >>
  /\ owner = ""
  /\ auctionEndTime = 0
  /\ auctionEnded = FALSE
  /\ highestBidder = ""
  /\ highestBid = 0
  /\ publicHandles = {}
  /\ blockTimestamp = 0
  /\ receipt = [fn |-> "none"]

(***************************************************************************)
(* Bounds.                                                                 *)
(***************************************************************************)
MaxRuns == 2

(***************************************************************************)
(* Paths.                                                                  *)
(***************************************************************************)
Basename(p) == p[Len(p)]

Parent(p) == SubSeq(p, 1, Len(p) - 1)

Join(a, b) == a \o b

IsUnder(p, d) == Len(p) > Len(d) /\ SubSeq(p, 1, Len(d)) = d

(***************************************************************************)
(* The catalogs.                                                           *)
(***************************************************************************)
EXAMPLES_MAP ==
  ( "blind-auction" :>
      [ contract    |-> <<"auctions", "BlindAuction.sol">>,
        test        |-> <<"auctions", "BlindAuction.ts">>,
        description |-> "Sealed-bid auction with encrypted bids",
        category    |-> "auctions" ] )
  @@
  ( "fhe-counter" :>
      [ contract    |-> <<"basic", "FHECounter.sol">>,
        test        |-> <<"basic", "FHECounter.ts">>,
        description |-> "Simple encrypted counter demonstrating FHE basics",
        category    |-> "basic" ] )

CATEGORIES ==
  ( "auctions" :>
      [ description |-> "Confidential auction mechanisms using FHEVM",
        examples    |-> <<"blind-auction">>,
        contracts   |-> << <<"auctions", "BlindAuction.sol">> >>,
        tests       |-> << <<"auctions", "BlindAuction.ts">> >> ] )
  @@
  ( "basic" :>
      [ description |-> "Fundamental FHE operations and patterns",
        examples    |-> <<"fhe-counter", "encrypt-single-value">>,
        contracts   |-> << <<"basic", "FHECounter.sol">> >>,
        tests       |-> << <<"basic", "FHECounter.ts">> >> ] )

Catalog(k) == IF k = "example" THEN EXAMPLES_MAP ELSE CATEGORIES

\* the contract / test paths a resolved entry names, as the sequence the script walks
ContractsOf(k, cfg) == IF k = "example" THEN << cfg.contract >> ELSE cfg.contracts

TestsOf(k, cfg) == IF k = "example" THEN << cfg.test >> ELSE cfg.tests

\* the identifiers a caller may pass: every catalog key and one unknown
Identifiers == DOMAIN EXAMPLES_MAP \cup DOMAIN CATEGORIES \cup {"does-not-exist"}

(***************************************************************************)
(* File contents.                                                          *)
(***************************************************************************)
TextFile(b) == [type |-> "text", body |-> b]

\* a package.json text that JSON.parse accepts: its layout (whitespace) and fields
JsonFile(l, fs) == [type |-> "json", layout |-> l, fields |-> fs]

Field(k, v) == [key |-> k, value |-> v]

\* the repository's copy of an artifact or utility file
SourceContent(p) == [type |-> "source", path |-> p]


NoFile == [type |-> "none"]

\* the content of the file at p in a tree's files, NoFile when there is none
At(files, p) == IF p \in DOMAIN files THEN files[p] ELSE NoFile

(***************************************************************************)
(* The manifest rewriter: JSON.parse, three property assignments,          *)
(* JSON.stringify(packageJson, null, 2).  A JavaScript object keeps its    *)
(* string keys in insertion order: assigning an existing key keeps its     *)
(* place, a new key goes last.  A JSON value is a list of strings (a       *)
(* scalar is a list of one).                                               *)
(***************************************************************************)
MANIFEST == <<"package.json">>

README == <<"README.md">>

CanParse(text) == text.type = "json"

JSONParse(text) == text.fields

HasKey(obj, k) == \E i \in 1 .. Len(obj) : obj[i].key = k

Get(obj, k) == (CHOOSE f \in { obj[i] : i \in 1 .. Len(obj) } : f.key = k).value

\* SetProperty with a bug: a key the object already has keeps its old value
SetPropertyIfAbsent(obj, k, v) ==
  IF HasKey(obj, k) THEN obj ELSE Append(obj, Field(k, v))

SetProperty(obj, k, v) ==
  IF HasKey(obj, k)
    THEN [ i \in 1 .. Len(obj) |-> IF obj[i].key = k THEN Field(k, v) ELSE obj[i] ]
    ELSE Append(obj, Field(k, v))

JSONStringify(obj) == JsonFile("indent2", obj)

FixedTags == <<"fhevm", "zama", "fhe", "privacy", "blockchain">>

\* packageJson.name
PackageName(k, n) ==
  IF k = "example" THEN "fhevm-" \o n ELSE ("fhevm-" \o n) \o "-examples"

\* packageJson.keywords
Keywords(k, n, cfg) ==
  IF k = "example" THEN Append(FixedTags, cfg.category)
                   ELSE FixedTags \o <<n, "examples">>

\* UpdatedPackageJson with a bug: a fresh object with the three fields is written
UpdatedPackageJsonFromScratch(k, n, cfg, text) ==
  LET named     == SetProperty(<< >>, "name", << PackageName(k, n) >>)
      described == SetProperty(named, "description", << cfg.description >>)
      tagged    == SetProperty(described, "keywords", Keywords(k, n, cfg))
  IN  JSONStringify(tagged)

\* UpdatedPackageJson with a bug: the tags are added to the keywords already there
UpdatedPackageJsonMergingKeywords(k, n, cfg, text) ==
  LET packageJson == JSONParse(text)
      named       == SetProperty(packageJson, "name", << PackageName(k, n) >>)
      described   == SetProperty(named, "description", << cfg.description >>)
      existing    == IF HasKey(packageJson, "keywords") THEN Get(packageJson, "keywords")
                                                        ELSE << >>
      tagged      == SetProperty(described, "keywords", existing \o Keywords(k, n, cfg))
  IN  JSONStringify(tagged)

\* the text updatePackageJson / updateCategoryPackageJson writes over a parseable one
UpdatedPackageJson(k, n, cfg, text) ==
  LET packageJson == JSONParse(text)
      named       == SetProperty(packageJson, "name", << PackageName(k, n) >>)
      described   == SetProperty(named, "description", << cfg.description >>)
      tagged      == SetProperty(described, "keywords", Keywords(k, n, cfg))
  IN  JSONStringify(tagged)

(***************************************************************************)
(* The base template and the destinations the scripts may be pointed at.   *)
(***************************************************************************)
\* a tree: its directories (<<>> is the root; none when the tree is absent) and files
Tree(ds, fs) == [dirs |-> ds, files |-> fs]

AbsentTree == Tree({}, << >>)

TemplateManifestA ==
  JsonFile("indent2",
    << Field("name", <<"fhevm-hardhat-template">>),
       Field("version", <<"0.1.0">>),
       Field("description", <<"Hardhat-based template for developing FHEVM contracts">>),
       Field("keywords", <<"fhevm", "zama", "hardhat">>),
       Field("scripts", <<"compile", "test">>) >>)

TemplateManifestB ==
  JsonFile("other",
    << Field("version", <<"0.0.1">>),
       Field("name", <<"template">>),
       Field("scripts", <<"compile", "test">>) >>)

MalformedManifest == TextFile("{ \"name\": ")

TemplateManifests == {NoFile, MalformedManifest, TemplateManifestA, TemplateManifestB}

TemplateFile(p) == [type |-> "template", path |-> p]

\* the template trees: with or without contracts/ and test/, with or without the
\* template's own FHECounter example in them, with each manifest
TemplateTree(shape, manifest) ==
  LET base  == (<<".gitignore">> :> TemplateFile(<<".gitignore">>))
               @@ (<<"deploy", "deploy.ts">> :> TemplateFile(<<"deploy", "deploy.ts">>))
      man   == IF manifest = NoFile THEN << >> ELSE (MANIFEST :> manifest)
      demo  == IF shape = "counter"
                 THEN (<<"contracts", "FHECounter.sol">> :> TemplateFile(<<"contracts", "FHECounter.sol">>))
                      @@ (<<"test", "FHECounter.ts">> :> TemplateFile(<<"test", "FHECounter.ts">>))
                 ELSE << >>
      sub   == IF shape = "bare" THEN {} ELSE { <<"contracts">>, <<"test">> }
  IN  Tree({ << >>, <<"deploy">> } \cup sub, (base @@ man) @@ demo)

\* a template directory that exists and holds nothing but dot-files
EmptyTemplate == Tree({ << >> }, (<<".gitignore">> :> TemplateFile(<<".gitignore">>)))

Templates ==
  { AbsentTree, EmptyTemplate }
  \cup { TemplateTree(s, m) : s \in {"bare", "dirs", "counter"}, m \in TemplateManifests }

UserFile(p) == [type |-> "user", path |-> p]

UserManifest ==
  JsonFile("other",
    << Field("name", <<"mine">>),
       Field("private", <<"true">>) >>)

\* outputDir before the first run: absent, empty, or holding a user's files
Destinations ==
  { AbsentTree,
    Tree({ << >> }, << >>),
    Tree({ << >>, <<"contracts">> },
         (<<"notes.txt">> :> UserFile(<<"notes.txt">>))
         @@ (<<"contracts", "Mine.sol">> :> UserFile(<<"contracts", "Mine.sol">>))
         @@ (MANIFEST :> UserManifest)),
    Tree({ << >>, <<"test">>, <<"test", "utils">>, <<"test", "utils", "utils">> },
         (<<"notes.txt">> :> UserFile(<<"notes.txt">>))
         @@ (<<"test", "utils", "utils", "fhevm.ts">>
               :> UserFile(<<"test", "utils", "utils", "fhevm.ts">>))) }

\* the artifact sources and the utility file a checkout of the repository may hold
ArtifactSources ==
  { <<"contracts">> \o EXAMPLES_MAP[e].contract : e \in DOMAIN EXAMPLES_MAP }
  \cup { <<"test">> \o EXAMPLES_MAP[e].test : e \in DOMAIN EXAMPLES_MAP }

UtilsSrc == <<"test", "utils">>

UtilsFiles == { <<"test", "utils", "fhevm.ts">> }

NoConfig == [description |-> "", category |-> ""]

Requests == {"example", "category"} \X Identifiers

Init ==
  /\ template \in Templates
  /\ repoFiles \in { a \cup u : a \in SUBSET ArtifactSources, u \in {{}, UtilsFiles} }
  /\ \E d \in Destinations : destDirs = d.dirs /\ destFiles = d.files
  /\ pc = "idle"
  /\ kind = "none"
  /\ name = ""
  /\ config = NoConfig
  /\ exitCode = -1
  /\ stdout = << >>
  /\ stderr = << >>
  /\ runs = 0
  /\ pre = AbsentTree
  /\ wrote = FALSE
  /\ produced = [r \in Requests |-> {}]
  /\ NoChain

(***************************************************************************)
(* Shell and fs primitives.                                                *)
(***************************************************************************)
Line(m, a) == [msg |-> m, arg |-> a]

\* what the glob <dir>/* matches: the files of the tree outside dot-entries
GlobStar(tree) == { p \in DOMAIN tree.files : p[1] \notin {".gitignore"} }

\* cp -r <dir>/* <outputDir>/ : every matched entry lands at its relative path,
\* directories merge with those present, files overwrite those of the same path
CopiedDirs(tree) == { d \in tree.dirs : d # << >> }

\* OverlayFiles with a bug: the destination is replaced by the template, not merged
OverlayFilesReplacing(tree, files) ==
  [ p \in GlobStar(tree) |-> tree.files[p] ]

OverlayFiles(tree, files) ==
  [ p \in GlobStar(tree) \cup DOMAIN files |->
      IF p \in GlobStar(tree) THEN tree.files[p] ELSE files[p] ]

\* fs.copyFileSync of each listed artifact whose source exists, in order, logging
\* before each copy; st = [files, out, ok], ok FALSE once a copy has thrown ENOENT
RECURSIVE CopyEach(_, _, _, _, _)
CopyEach(sub, paths, sources, dirs, st) ==
  IF paths = << >> \/ ~st.ok THEN st
  ELSE LET p   == Head(paths)
           src == Join(<<sub>>, p)
           dst == Join(<<sub>>, << Basename(p) >>)
       IN  IF src \notin sources
             THEN CopyEach(sub, Tail(paths), sources, dirs, st)
             ELSE LET logged == Append(st.out, Line("copying", src))
                  IN  IF Parent(dst) \notin dirs
                        THEN [files |-> st.files, out |-> logged, ok |-> FALSE]
                        ELSE CopyEach(sub, Tail(paths), sources, dirs,
                                      [files |-> (dst :> SourceContent(src)) @@ st.files,
                                       out   |-> logged,
                                       ok    |-> TRUE])

\* an uncaught exception: the error and the statement that threw it go to stderr
\* (the stack trace), the process exits with 1
Throw(what) ==
  /\ stderr' = Append(stderr, Line("uncaught", <<what, pc>>))
  /\ exitCode' = 1
  /\ pc' = "exited"

(***************************************************************************)
(* createExample / createCategory, one action per statement group of the   *)
(* script, in the order the script has them.                               *)
(***************************************************************************)
\* StepsOf with a bug: the template is copied after the artifacts, over them
StepsOfTemplateLast(k) ==
  IF k = "example"
    THEN <<"mkdir", "contracts", "tests", "template", "readme", "manifest", "finish">>
    ELSE <<"mkdir", "contracts", "tests", "template", "utils", "readme", "manifest", "finish">>

\* StepsOf with a bug: the manifest is rewritten right after the template copy
StepsOfManifestFirst(k) ==
  IF k = "example"
    THEN <<"mkdir", "template", "manifest", "contracts", "tests", "readme", "finish">>
    ELSE <<"mkdir", "template", "manifest", "contracts", "tests", "utils", "readme", "finish">>

\* the statement order of createExample (lines 40-79) and createCategory (lines 40-92)
StepsOf(k) ==
  IF k = "example"
    THEN <<"mkdir", "template", "contracts", "tests", "readme", "manifest", "finish">>
    ELSE <<"mkdir", "template", "contracts", "tests", "utils", "readme", "manifest", "finish">>

\* the step that follows step s, "exited" after the last
After(k, s) ==
  LET steps == StepsOf(k)
      i     == CHOOSE j \in 1 .. Len(steps) : steps[j] = s
  IN  IF i = Len(steps) THEN "exited" ELSE steps[i + 1]

\* ExitUnknown with a bug: the output directory is made before the lookup fails
ExitUnknownAfterMkdir(k, n) ==
  /\ stderr' = << Line("not found", <<n>>) >>
  /\ stdout' = << Line("available", <<k>>) >>
  /\ config' = NoConfig
  /\ exitCode' = 1
  /\ pc' = "exited"
  /\ destDirs' = destDirs \cup { << >> }
  /\ UNCHANGED destFiles

\* lines 29-33: the unknown identifier is reported and the process exits with 1
ExitUnknown(k, n) ==
  /\ stderr' = << Line("not found", <<n>>) >>
  /\ stdout' = << Line("available", <<k>>) >>
  /\ config' = NoConfig
  /\ exitCode' = 1
  /\ pc' = "exited"
  /\ UNCHANGED <<destDirs, destFiles>>

\* lines 28-38: the lookup, and the resolved entry
Invoke(k, n) ==
  /\ pc \in {"idle", "exited"}
  /\ runs < MaxRuns
  /\ runs' = runs + 1
  /\ kind' = k
  /\ name' = n
  /\ pre' = Tree(destDirs, destFiles)
  /\ wrote' = FALSE
  /\ IF n \notin DOMAIN Catalog(k)
       THEN ExitUnknown(k, n)
       ELSE /\ stderr' = << >>
            /\ stdout' = << Line("creating", <<n>>) >>
            /\ config' = Catalog(k)[n]
            /\ exitCode' = -1
            /\ pc' = StepsOf(k)[1]
            /\ UNCHANGED <<destDirs, destFiles>>
  /\ UNCHANGED <<template, repoFiles, produced>>
  /\ UNCHANGED chain

\* lines 40-43: fs.mkdirSync(outputDir, {recursive: true}) unless it exists
MakeOutputDir ==
  /\ pc = "mkdir"
  /\ destDirs' = destDirs \cup { << >> }
  /\ pc' = After(kind, "mkdir")
  /\ UNCHANGED <<template, repoFiles, destFiles, kind, name, config, exitCode,
                 stdout, stderr, runs, pre, wrote, produced>>
  /\ UNCHANGED chain

\* lines 45-47: execSync(`cp -r ${templateDir}/* ${outputDir}/`); with nothing for
\* the glob to match cp fails and execSync throws
CopyTemplate ==
  /\ pc = "template"
  /\ stdout' = Append(stdout, Line("copying template", << >>))
  /\ IF GlobStar(template) = {}
       THEN /\ Throw("cp")
            /\ UNCHANGED <<destDirs, destFiles>>
       ELSE /\ destDirs' = destDirs \cup CopiedDirs(template)
            /\ destFiles' = OverlayFiles(template, destFiles)
            /\ pc' = After(kind, "template")
            /\ UNCHANGED <<exitCode, stderr>>
  /\ UNCHANGED <<template, repoFiles, kind, name, config, runs, pre, wrote, produced>>
  /\ UNCHANGED chain

\* CopyArtifacts with a bug: no existsSync guard, a missing source throws ENOENT
CopyArtifactsUnguarded(sub, paths, next) ==
  LET done    == CopyEach(sub, paths, repoFiles, destDirs,
                          [files |-> destFiles, out |-> stdout, ok |-> TRUE])
      missing == \E i \in 1 .. Len(paths) : Join(<<sub>>, paths[i]) \notin repoFiles
  IN  /\ destFiles' = done.files
      /\ stdout' = done.out
      /\ IF done.ok /\ ~missing
           THEN pc' = next /\ UNCHANGED <<exitCode, stderr>>
           ELSE Throw("ENOENT")
      /\ UNCHANGED <<template, repoFiles, destDirs, kind, name, config, runs, pre,
                     wrote, produced>>

\* the per-artifact copy of contracts (sub = "contracts") or tests (sub = "test")
CopyArtifacts(sub, paths, next) ==
  LET done == CopyEach(sub, paths, repoFiles, destDirs,
                       [files |-> destFiles, out |-> stdout, ok |-> TRUE])
  IN  /\ destFiles' = done.files
      /\ stdout' = done.out
      /\ IF done.ok
           THEN pc' = next /\ UNCHANGED <<exitCode, stderr>>
           ELSE Throw("ENOENT")
      /\ UNCHANGED <<template, repoFiles, destDirs, kind, name, config, runs, pre,
                     wrote, produced>>

\* example lines 49-56, category lines 49-59
CopyContracts ==
  /\ pc = "contracts"
  /\ CopyArtifacts("contracts", ContractsOf(kind, config), After(kind, "contracts"))
  /\ UNCHANGED chain

\* example lines 58-65, category lines 61-71
CopyTests ==
  /\ pc = "tests"
  /\ CopyArtifacts("test", TestsOf(kind, config), After(kind, "tests"))
  /\ UNCHANGED chain

\* where cp -r <utilsSrc> <utilsDest> puts the tree: INTO utilsDest when that is an
\* existing directory (utils/utils), at utilsDest when it is not there yet
UtilsDest == <<"test", "utils">>

UtilsTarget(dirs) ==
  IF UtilsDest \in dirs THEN Join(UtilsDest, << Basename(UtilsSrc) >>) ELSE UtilsDest

UtilsLanding(dirs, p) == Join(UtilsTarget(dirs), SubSeq(p, Len(UtilsSrc) + 1, Len(p)))

\* category lines 73-78: execSync(`cp -r ${utilsSrc} ${utilsDest}`) when the repository
\* has test/utils; cp fails, and execSync throws, when utilsDest's parent is missing
CopyUtils ==
  /\ pc = "utils"
  /\ LET present == { p \in repoFiles : IsUnder(p, UtilsSrc) }
         landing == { UtilsLanding(destDirs, p) : p \in present }
     IN  IF present = {}
           THEN /\ pc' = After(kind, "utils")
                /\ UNCHANGED <<destDirs, destFiles, exitCode, stderr>>
           ELSE IF Parent(UtilsDest) \notin destDirs
             THEN /\ Throw("cp")
                  /\ UNCHANGED <<destDirs, destFiles>>
             ELSE /\ destDirs' = destDirs \cup { UtilsTarget(destDirs) }
                  /\ destFiles' =
                       [ q \in landing \cup DOMAIN destFiles |->
                           IF q \in landing
                             THEN SourceContent(CHOOSE p \in present :
                                                  UtilsLanding(destDirs, p) = q)
                             ELSE destFiles[q] ]
                  /\ pc' = After(kind, "utils")
                  /\ UNCHANGED <<exitCode, stderr>>
  /\ UNCHANGED <<template, repoFiles, kind, name, config, stdout, runs, pre, wrote,
                 produced>>
  /\ UNCHANGED chain

(***************************************************************************)
(* The generated README.  A JavaScript string is its sequence of           *)
(* characters; the text is kept as the lines of the template literal that  *)
(* interpolate a value or mention FHE, each a sequence of characters, so   *)
(* that charAt, slice, toUpperCase, toLowerCase and a substring test are   *)
(* computed on the characters.                                             *)
(***************************************************************************)
\* the characters of the string literals of the two scripts' catalogs
Chars ==
  ( "blind-auction" :> <<"b","l","i","n","d","-","a","u","c","t","i","o",
      "n">> ) @@
  ( "fhe-counter" :> <<"f","h","e","-","c","o","u","n","t","e","r">> ) @@
  ( "encrypt-single-value" :> <<"e","n","c","r","y","p","t","-","s","i","n",
      "g","l","e","-","v","a","l","u","e">> ) @@
  ( "auctions" :> <<"a","u","c","t","i","o","n","s">> ) @@
  ( "basic" :> <<"b","a","s","i","c">> ) @@
  ( "Sealed-bid auction with encrypted bids" :> <<"S","e","a","l","e","d","-",
      "b","i","d"," ","a","u","c","t","i","o","n"," ","w","i","t","h"," ","e",
      "n","c","r","y","p","t","e","d"," ","b","i","d","s">> ) @@
  ( "Simple encrypted counter demonstrating FHE basics" :> <<"S","i","m","p",
      "l","e"," ","e","n","c","r","y","p","t","e","d"," ","c","o","u","n","t",
      "e","r"," ","d","e","m","o","n","s","t","r","a","t","i","n","g"," ","F",
      "H","E"," ","b","a","s","i","c","s">> ) @@
  ( "Confidential auction mechanisms using FHEVM" :> <<"C","o","n","f","i",
      "d","e","n","t","i","a","l"," ","a","u","c","t","i","o","n"," ","m","e",
      "c","h","a","n","i","s","m","s"," ","u","s","i","n","g"," ","F","H","E",
      "V","M">> ) @@
  ( "Fundamental FHE operations and patterns" :> <<"F","u","n","d","a","m",
      "e","n","t","a","l"," ","F","H","E"," ","o","p","e","r","a","t","i","o",
      "n","s"," ","a","n","d"," ","p","a","t","t","e","r","n","s">> ) @@
  ( "Basic FHE encryption patterns" :> <<"B","a","s","i","c"," ","F","H","E",
      " ","e","n","c","r","y","p","t","i","o","n"," ","p","a","t","t","e","r",
      "n","s">> ) @@
  ( "FHEVM example" :> <<"F","H","E","V","M"," ","e","x","a","m","p","l",
      "e">> ) @@
  ( "BlindAuction.sol" :> <<"B","l","i","n","d","A","u","c","t","i","o","n",
      ".","s","o","l">> ) @@
  ( "BlindAuction.ts" :> <<"B","l","i","n","d","A","u","c","t","i","o","n",
      ".","t","s">> ) @@
  ( "FHECounter.sol" :> <<"F","H","E","C","o","u","n","t","e","r",".","s","o",
      "l">> ) @@
  ( "FHECounter.ts" :> <<"F","H","E","C","o","u","n","t","e","r",".","t",
      "s">> )

\* the character U+0060, which a string of this language cannot hold
Backtick == "U+0060"

Letters ==
  <<"a","b","c","d","e","f","g","h","i","j","k","l","m","n","o","p","q","r","s",
  "t","u","v","w","x","y","z">>

Capitals ==
  <<"A","B","C","D","E","F","G","H","I","J","K","L","M","N","O","P","Q","R","S",
  "T","U","V","W","X","Y","Z">>

\* String.prototype.toUpperCase / toLowerCase on one character
UpperChar(c) ==
  IF \E i \in 1..Len(Letters) : Letters[i] = c
    THEN Capitals[CHOOSE i \in 1..Len(Letters) : Letters[i] = c]
    ELSE c

LowerChar(c) ==
  IF \E i \in 1..Len(Capitals) : Capitals[i] = c
    THEN Letters[CHOOSE i \in 1..Len(Capitals) : Capitals[i] = c]
    ELSE c

ToLowerCase(s) == [ i \in 1..Len(s) |-> LowerChar(s[i]) ]

\* s.charAt(0).toUpperCase() + s.slice(1)
Capitalized(s) ==
  IF s = << >> THEN s ELSE << UpperChar(s[1]) >> \o SubSeq(s, 2, Len(s))

\* String.prototype.includes
Includes(s, t) ==
  \E i \in 1..(Len(s) - Len(t) + 1) : SubSeq(s, i, i + Len(t) - 1) = t

\* create-fhevm-example.js generateReadme(exampleName, config)
generateReadme(exampleName, cfg) ==
  <<
    <<"#"," ">> \o Capitalized(Chars[exampleName]) \o
      <<" ","-"," ","F","H","E","V","M"," ","E","x","a","m","p","l","e">>,
    Chars[cfg.description],
    <<"T","h","i","s"," ","e","x","a","m","p","l","e"," ","d","e","m","o","n","s",
      "t","r","a","t","e","s"," ">>
      \o ToLowerCase(Chars[cfg.description]) \o
      <<" ","u","s","i","n","g"," ","F","H","E","V","M"," ","(","F","u","l","l","y",
      " ","H","o","m","o","m","o","r","p","h","i","c"," ","E","n","c","r","y",
      "p","t","i","o","n"," ","V","i","r","t","u","a","l"," ","M","a","c","h",
      "i","n","e",")"," ","b","y"," ","Z","a","m","a",".">>,
    <<"-"," ","E","n","c","r","y","p","t","e","d"," ","d","a","t","a"," ","h","a",
      "n","d","l","i","n","g"," ","w","i","t","h"," ","F","H","E","V","M">>,
    <<"-"," ","P","e","r","m","i","s","s","i","o","n"," ","m","a","n","a","g","e",
      "m","e","n","t"," ","w","i","t","h"," ","F","H","E",".","a","l","l","o",
      "w","(",")"," ","a","n","d"," ","F","H","E",".","a","l","l","o","w","T",
      "h","i","s","(",")">>,
    <<"-"," ">> \o
      (IF cfg.category = "auctions"
         THEN <<"C","o","n","f","i","d","e","n","t","i","a","l"," ","b","i","d","d","i","n",
              "g"," ","m","e","c","h","a","n","i","s","m","s">>
         ELSE <<"B","a","s","i","c"," ","F","H","E"," ","o","p","e","r","a","t","i","o","n",
              "s">>),
    <<"-"," ",Backtick,"c","o","n","t","r","a","c","t","s","/">> \o Chars[Basename(cfg.contract)] \o
      <<Backtick," ","-"," ","M","a","i","n"," ","c","o","n","t","r","a","c","t"," ","i",
      "m","p","l","e","m","e","n","t","a","t","i","o","n">>,
    <<"-"," ",Backtick,"t","e","s","t","/">> \o Chars[Basename(cfg.test)] \o
      <<Backtick," ","-"," ","C","o","m","p","r","e","h","e","n","s","i","v","e"," ","t",
      "e","s","t"," ","s","u","i","t","e">>,
    <<"-"," ","[","F","H","E","V","M"," ","D","o","c","u","m","e","n","t","a","t",
      "i","o","n","]","(","h","t","t","p","s",":","/","/","d","o","c","s",".",
      "z","a","m","a",".","a","i","/","f","h","e","v","m",")">>,
    <<"-"," ","[","G","i","t","H","u","b"," ","R","e","p","o","s","i","t","o","r",
      "y","]","(","h","t","t","p","s",":","/","/","g","i","t","h","u","b",".",
      "c","o","m","/","z","a","m","a","-","a","i","/","f","h","e","v","m",
      ")">>
  >>

\* create-fhevm-category.js getExampleDescription(exampleName)
getExampleDescription(exampleName) ==
  IF exampleName = "blind-auction"
    THEN Chars["Sealed-bid auction with encrypted bids"]
  ELSE IF exampleName = "fhe-counter"
    THEN Chars["Simple encrypted counter demonstrating FHE basics"]
  ELSE IF exampleName = "encrypt-single-value"
    THEN Chars["Basic FHE encryption patterns"]
  ELSE Chars["FHEVM example"]

\* create-fhevm-category.js generateCategoryReadme(categoryName, config)
generateCategoryReadme(categoryName, cfg) ==
  <<
    <<"#"," ">> \o Capitalized(Chars[categoryName]) \o
      <<" ","E","x","a","m","p","l","e","s"," ","-"," ","F","H","E","V","M">>,
    Chars[cfg.description],
    <<"T","h","i","s"," ","p","r","o","j","e","c","t"," ","c","o","n","t","a","i",
      "n","s"," ","m","u","l","t","i","p","l","e"," ","F","H","E","V","M"," ",
      "e","x","a","m","p","l","e","s"," ","d","e","m","o","n","s","t","r","a",
      "t","i","n","g"," ">>
      \o ToLowerCase(Chars[cfg.description]) \o <<".">>
  >>
  \o [ i \in 1..Len(cfg.examples) |->
         <<"-"," ","*","*">> \o Chars[cfg.examples[i]] \o
         <<"*","*"," ","-"," ">> \o getExampleDescription(cfg.examples[i]) ]
  \o <<
    <<"-"," ","E","n","c","r","y","p","t","e","d"," ","d","a","t","a"," ","h","a",
      "n","d","l","i","n","g"," ","w","i","t","h"," ","F","H","E","V","M">>,
    <<"-"," ","P","e","r","m","i","s","s","i","o","n"," ","m","a","n","a","g","e",
      "m","e","n","t"," ","w","i","t","h"," ","F","H","E",".","a","l","l","o",
      "w","(",")"," ","a","n","d"," ","F","H","E",".","a","l","l","o","w","T",
      "h","i","s","(",")">>,
    <<"-"," ">> \o
      (IF categoryName = "auctions"
         THEN <<"C","o","n","f","i","d","e","n","t","i","a","l"," ","b","i","d","d","i","n",
              "g"," ","a","n","d"," ","a","u","c","t","i","o","n"," ","m","e",
              "c","h","a","n","i","s","m","s">>
         ELSE <<"B","a","s","i","c"," ","F","H","E"," ","o","p","e","r","a","t","i","o","n",
              "s"," ","a","n","d"," ","p","a","t","t","e","r","n","s">>),
    <<"-"," ","[","F","H","E","V","M"," ","D","o","c","u","m","e","n","t","a","t",
      "i","o","n","]","(","h","t","t","p","s",":","/","/","d","o","c","s",".",
      "z","a","m","a",".","a","i","/","f","h","e","v","m",")">>,
    <<"-"," ","[","G","i","t","H","u","b"," ","R","e","p","o","s","i","t","o","r",
      "y","]","(","h","t","t","p","s",":","/","/","g","i","t","h","u","b",".",
      "c","o","m","/","z","a","m","a","-","a","i","/","f","h","e","v","m",
      ")">>
  >>

\* the README.md either script writes: the text its generator returns for these
\* arguments
ReadmeText(k, n, cfg) == [type |-> "readme", kind |-> k, name |-> n, config |-> cfg]

\* the lines of a README.md
ReadmeLines(file) ==
  IF file.kind = "example" THEN generateReadme(file.name, file.config)
                           ELSE generateCategoryReadme(file.name, file.config)

\* example lines 67-69, category lines 80-82
WriteReadme ==
  /\ pc = "readme"
  /\ destFiles' = (README :> ReadmeText(kind, name, config)) @@ destFiles
  /\ pc' = After(kind, "readme")
  /\ UNCHANGED <<template, repoFiles, destDirs, kind, name, config, exitCode,
                 stdout, stderr, runs, pre, wrote, produced>>
  /\ UNCHANGED chain

\* WriteBack with a bug: a malformed manifest is repaired from an empty object
WriteBackLenient(k, n, cfg, found) ==
  IF found = NoFile THEN [threw |-> "ENOENT", text |-> found]
  ELSE IF ~CanParse(found)
    THEN [threw |-> "", text |-> UpdatedPackageJson(k, n, cfg, JsonFile("other", << >>))]
  ELSE [threw |-> "", text |-> UpdatedPackageJson(k, n, cfg, found)]

\* what updatePackageJson / updateCategoryPackageJson does with the manifest it finds:
\* readFileSync throws when there is none, JSON.parse when it is malformed, and
\* otherwise the rewritten text is written back
WriteBack(k, n, cfg, found) ==
  IF found = NoFile THEN [threw |-> "ENOENT", text |-> found]
  ELSE IF ~CanParse(found) THEN [threw |-> "SyntaxError", text |-> found]
  ELSE [threw |-> "", text |-> UpdatedPackageJson(k, n, cfg, found)]

\* example line 72, category line 85
UpdatePackageJson ==
  /\ pc = "manifest"
  /\ LET result == WriteBack(kind, name, config, At(destFiles, MANIFEST))
     IN  IF result.threw # ""
           THEN /\ Throw(result.threw)
                /\ UNCHANGED <<destFiles, wrote, produced>>
           ELSE /\ destFiles' = (MANIFEST :> result.text) @@ destFiles
                /\ wrote' = TRUE
                /\ produced' = [produced EXCEPT ![<<kind, name>>] = @ \cup {result.text}]
                /\ pc' = After(kind, "manifest")
                /\ UNCHANGED <<exitCode, stderr>>
  /\ UNCHANGED <<template, repoFiles, destDirs, kind, name, config, stdout, runs, pre>>
  /\ UNCHANGED chain

\* example lines 74-79, category lines 87-92: the closing messages; the script returns
\* and the process ends with status 0
Finish ==
  /\ pc = "finish"
  /\ stdout' = Append(stdout, Line("created successfully", <<name>>))
  /\ exitCode' = 0
  /\ pc' = After(kind, "finish")
  /\ UNCHANGED <<template, repoFiles, destDirs, destFiles, kind, name, config,
                 stderr, runs, pre, wrote, produced>>
  /\ UNCHANGED chain

\* CLI handling, example lines 146-151, category lines 191-196: with fewer than
\* two arguments the usage and the catalog's identifiers are printed with
\* console.log and the process exits with 1 before createExample / createCategory
Usage(k) ==
  /\ pc \in {"idle", "exited"}
  /\ runs < MaxRuns
  /\ runs' = runs + 1
  /\ kind' = k
  /\ name' = ""
  /\ config' = NoConfig
  /\ pre' = Tree(destDirs, destFiles)
  /\ wrote' = FALSE
  /\ stdout' = << Line("usage", <<k>>), Line("available", <<k>>) >>
  /\ stderr' = << >>
  /\ exitCode' = 1
  /\ pc' = "exited"
  /\ UNCHANGED <<template, repoFiles, destDirs, destFiles, produced>>
  /\ UNCHANGED chain

Next ==
  \/ \E r \in Requests : Invoke(r[1], r[2])
  \/ \E k \in {"example", "category"} : Usage(k)
  \/ MakeOutputDir
  \/ CopyTemplate
  \/ CopyContracts
  \/ CopyTests
  \/ CopyUtils
  \/ WriteReadme
  \/ UpdatePackageJson
  \/ Finish

Spec == Init /\ [][Next]_vars

(***************************************************************************)
(* The manifest rewriter on its own: updatePackageJson(outputDir,          *)
(* exampleName, config) and updateCategoryPackageJson(outputDir,           *)
(* categoryName, config) applied, once or repeatedly, to a directory that  *)
(* holds a manifest, for the entries a catalog may register: the inputs    *)
(* include a category tag and a category name that are also fixed tags.    *)
(***************************************************************************)
RewriteNames == {"blind-auction", "fhe-counter", "auctions", "basic", "fhe"}

RewriteConfigs ==
  { [description |-> d, category |-> c] :
      d \in {"Sealed-bid auction with encrypted bids",
             "Fundamental FHE operations and patterns"},
      c \in {"auctions", "basic", "fhe", "privacy"} }

RewriteManifests == {MalformedManifest, TemplateManifestA, TemplateManifestB, UserManifest}

InitRewrite ==
  /\ template = AbsentTree
  /\ repoFiles = {}
  /\ destDirs = { << >> }
  /\ \E m \in RewriteManifests : destFiles = (MANIFEST :> m)
  /\ pc = "manifest"
  /\ kind \in {"example", "category"}
  /\ name \in RewriteNames
  /\ config \in RewriteConfigs
  /\ exitCode = -1
  /\ stdout = << >>
  /\ stderr = << >>
  /\ runs = 1
  /\ pre = Tree(destDirs, destFiles)
  /\ wrote = FALSE
  /\ produced = [r \in {"example", "category"} \X RewriteNames |-> {}]
  /\ NoChain

\* the rewriter is called again on the directory it has rewritten
CallAgain ==
  /\ pc = "exited"
  /\ exitCode = 0
  /\ runs < MaxRuns
  /\ runs' = runs + 1
  /\ pre' = Tree(destDirs, destFiles)
  /\ wrote' = FALSE
  /\ exitCode' = -1
  /\ pc' = "manifest"
  /\ UNCHANGED <<template, repoFiles, destDirs, destFiles, kind, name, config,
                 stdout, stderr, produced>>
  /\ UNCHANGED chain

NextRewrite ==
  \/ UpdatePackageJson
  \/ Finish
  \/ CallAgain

SpecRewrite == InitRewrite /\ [][NextRewrite]_vars

(***************************************************************************)
(* Vocabulary of the properties.                                           *)
(***************************************************************************)
Ended == pc = "exited"

Known == kind \in {"example", "category"} /\ name \in DOMAIN Catalog(kind)

Succeeded == Ended /\ exitCode = 0

\* the artifacts of the request being served: kind subdirectory and catalog path
RunArtifacts ==
  IF ~Known THEN {}
  ELSE LET cfg == Catalog(kind)[name]
       IN  { [sub |-> "contracts", path |-> ContractsOf(kind, cfg)[i]] :
               i \in 1 .. Len(ContractsOf(kind, cfg)) }
           \cup { [sub |-> "test", path |-> TestsOf(kind, cfg)[i]] :
                    i \in 1 .. Len(TestsOf(kind, cfg)) }

Src(a) == <<a.sub>> \o a.path

Dst(a) == <<a.sub, a.path[Len(a.path)]>>

MissingArtifacts == { a \in RunArtifacts : Src(a) \notin repoFiles }

PresentArtifacts == { a \in RunArtifacts : Src(a) \in repoFiles }

\* the run started on a destination that was absent or an empty directory
FreshRun == DOMAIN pre.files = {} /\ pre.dirs \subseteq { << >> }

\* the template can be copied, provides contracts/ and test/ and a parseable manifest
UsableTemplate ==
  /\ { <<"contracts">>, <<"test">> } \subseteq template.dirs
  /\ CanParse(At(template.files, MANIFEST))

\* the manifest in the destination once the template copy has run
FoundManifest ==
  IF MANIFEST \in DOMAIN template.files THEN template.files[MANIFEST]
  ELSE At(pre.files, MANIFEST)

C2_MissingTemplateLeavesDestination ==
  (Ended /\ Known /\ template = AbsentTree)
    => /\ exitCode # 0
       /\ destDirs = pre.dirs
       /\ destFiles = pre.files

(***************************************************************************)
(* C3.  As claimed: a run into a fresh directory, from a usable template,  *)
(* with an artifact source missing, ends in success (README written,       *)
(* manifest rewritten, exit 0), every artifact whose source exists is      *)
(* copied, and the missing artifact's subdirectory exists but does not     *)
(* hold a file of the artifact's name.                                     *)
(***************************************************************************)
C3_MissingArtifactFileAbsent ==
  (Ended /\ Known /\ FreshRun /\ UsableTemplate /\ MissingArtifacts # {})
    => /\ exitCode = 0
       /\ At(destFiles, README) = ReadmeText(kind, name, Catalog(kind)[name])
       /\ wrote
       /\ \A a \in PresentArtifacts : At(destFiles, Dst(a)) = SourceContent(Src(a))
       /\ \A a \in MissingArtifacts :
            <<a.sub>> \in destDirs /\ Dst(a) \notin DOMAIN destFiles

(***************************************************************************)
(* C3, amended.  The same run ends in success, every artifact whose source *)
(* exists is copied, the missing artifact's subdirectory exists, and the   *)
(* missing artifact's destination path holds exactly what the template     *)
(* provides there: nothing when the template has no file of that name, the *)
(* template's own file otherwise.                                          *)
(***************************************************************************)
C3_MissingArtifactIsSkipped ==
  (Ended /\ Known /\ FreshRun /\ UsableTemplate /\ MissingArtifacts # {})
    => /\ exitCode = 0
       /\ At(destFiles, README) = ReadmeText(kind, name, Catalog(kind)[name])
       /\ wrote
       /\ \A a \in PresentArtifacts : At(destFiles, Dst(a)) = SourceContent(Src(a))
       /\ \A a \in MissingArtifacts :
            /\ <<a.sub>> \in destDirs
            /\ At(destFiles, Dst(a)) = At(template.files, Dst(a))

C3_Witness ==
  /\ Succeeded /\ Known /\ FreshRun /\ UsableTemplate
  /\ \E a \in MissingArtifacts : At(destFiles, Dst(a)) = TemplateFile(Dst(a))
  /\ \E a \in PresentArtifacts : At(destFiles, Dst(a)) = SourceContent(Src(a))

(***************************************************************************)
(* C4.  At the end of a successful run the artifacts reported as skipped   *)
(* are exactly the catalog artifacts whose source did not exist, and those *)
(* reported as copied exactly the ones whose source existed.               *)
(***************************************************************************)
Reported(lines, m) == { lines[i].arg : i \in { j \in 1 .. Len(lines) : lines[j].msg = m } }

C4_SkipsAndCopiesReported ==
  Succeeded
    => /\ Reported(stdout \o stderr, "skipped") = { Src(a) : a \in MissingArtifacts }
       /\ Reported(stdout \o stderr, "copying") = { Src(a) : a \in PresentArtifacts }

(***************************************************************************)
(* C5.  As claimed: every file the destination held when the run started,  *)
(* at a path that is not in the template tree, not an artifact destination *)
(* of the run, not README.md and not the manifest, is present with         *)
(* unchanged content at every point of the run; no file is ever deleted.   *)
(***************************************************************************)
ArtifactDsts == { Dst(a) : a \in RunArtifacts }

C6_ManifestNameAndDescription ==
  Succeeded
    => LET text == At(destFiles, MANIFEST)
       IN  /\ CanParse(text)
           /\ HasKey(JSONParse(text), "name")
           /\ Get(JSONParse(text), "name") =
                << IF kind = "example" THEN "fhevm-" \o name
                                       ELSE "fhevm-" \o (name \o "-examples") >>
           /\ (kind = "example" /\ name = "fhe-counter")
                => Get(JSONParse(text), "name") = <<"fhevm-fhe-counter">>
           /\ (kind = "category" /\ name = "auctions")
                => Get(JSONParse(text), "name") = <<"fhevm-auctions-examples">>
           /\ HasKey(JSONParse(text), "description")
           /\ Get(JSONParse(text), "description") = << Catalog(kind)[name].description >>

C6_Witness ==
  /\ Succeeded
  /\ kind = "category"
  /\ FoundManifest = TemplateManifestA
  /\ Get(JSONParse(destFiles[MANIFEST]), "name") # Get(JSONParse(FoundManifest), "name")

(***************************************************************************)
(* C7.  After a successful rewrite the keywords start with the fixed       *)
(* domain tags, hold no entry twice, and hold the category tag exactly     *)
(* once, also when the category tag equals one of the fixed domain tags.   *)
(***************************************************************************)
CategoryTag == IF kind = "example" THEN config.category ELSE name

Occurrences(seq, x) == Cardinality({ i \in 1 .. Len(seq) : seq[i] = x })

C8_ManifestRewriteIdempotent ==
  /\ \A r \in DOMAIN produced : Cardinality(produced[r]) <= 1
  /\ Succeeded
       => UpdatedPackageJson(kind, name, config, destFiles[MANIFEST]) = destFiles[MANIFEST]

\* a second successful run of the request that already rewrote this manifest, the
\* template bringing no manifest of its own
C8_Witness ==
  /\ Succeeded
  /\ runs = 2
  /\ MANIFEST \notin DOMAIN template.files
  /\ At(pre.files, MANIFEST) \in produced[<<kind, name>>]
  /\ At(pre.files, MANIFEST).layout = "indent2"

AbortedInCopies ==
  /\ Ended /\ Known /\ exitCode # 0
  /\ \E i \in 1 .. Len(stderr) :
       /\ stderr[i].msg = "uncaught"
       /\ stderr[i].arg[2] \in {"contracts", "tests", "utils"}

UtilsCopied ==
  (kind = "category" /\ UtilsFiles \subseteq repoFiles)
    => \/ At(destFiles, <<"test", "utils", "fhevm.ts">>)
            = SourceContent(<<"test", "utils", "fhevm.ts">>)
       \/ At(destFiles, <<"test", "utils", "utils", "fhevm.ts">>)
            = SourceContent(<<"test", "utils", "fhevm.ts">>)

RewriteAfterCopies ==
  wrote => /\ \A a \in PresentArtifacts : At(destFiles, Dst(a)) = SourceContent(Src(a))
           /\ UtilsCopied

C10_AbortLeavesTemplateManifest ==
  /\ RewriteAfterCopies
  /\ AbortedInCopies
       => /\ ~wrote
          /\ At(destFiles, MANIFEST) \in {NoFile, At(template.files, MANIFEST)}

(***************************************************************************)
(* C10, amended.  The same, the manifest after such an abort being what    *)
(* the template copy left: the template's manifest when the template has   *)
(* one, otherwise whatever the destination held before the run (nothing,   *)
(* or the manifest that was already there).                                *)
(***************************************************************************)
C10_AbortLeavesManifestUnwritten ==
  /\ RewriteAfterCopies
  /\ AbortedInCopies
       => /\ ~wrote
          /\ At(destFiles, MANIFEST) = FoundManifest

C10_Witness ==
  /\ AbortedInCopies
  /\ stderr = << Line("uncaught", <<"ENOENT", "tests">>) >>
  /\ At(destFiles, MANIFEST) = TemplateManifestA
  /\ \E a \in PresentArtifacts : Dst(a) \notin DOMAIN destFiles

(***************************************************************************)
(* C11.  Materializing the example 'fhe-counter', both of its sources      *)
(* present, from a usable template into a fresh directory ends in success  *)
(* with contracts/FHECounter.sol and test/FHECounter.ts copied, a manifest *)
(* named 'fhevm-fhe-counter', and a README.md one of whose lines contains  *)
(* the example's human title, the string 'FHE Counter'.                    *)
(***************************************************************************)
HumanTitle == <<"F","H","E"," ","C","o","u","n","t","e","r">>

ReadmeContains(text) ==
  /\ At(destFiles, README).type = "readme"
  /\ \E i \in 1 .. Len(ReadmeLines(destFiles[README])) :
       Includes(ReadmeLines(destFiles[README])[i], text)

FheCounterScenario ==
  /\ Ended /\ kind = "example" /\ name = "fhe-counter"
  /\ FreshRun /\ UsableTemplate /\ MissingArtifacts = {}

C11_FheCounterReadmeHasTitle ==
  FheCounterScenario
    => /\ exitCode = 0
       /\ At(destFiles, <<"contracts", "FHECounter.sol">>)
            = SourceContent(<<"contracts", "basic", "FHECounter.sol">>)
       /\ At(destFiles, <<"test", "FHECounter.ts">>)
            = SourceContent(<<"test", "basic", "FHECounter.ts">>)
       /\ CanParse(At(destFiles, MANIFEST))
       /\ Get(JSONParse(destFiles[MANIFEST]), "name") = <<"fhevm-fhe-counter">>
       /\ ReadmeContains(HumanTitle)

(***************************************************************************)
(* generate-docs.js: the documentation generator.  It runs over the same   *)
(* filesystem variables, destDirs and destFiles now being its outputDir    *)
(* (default ./docs); template and wrote play no part in it.  Each of its   *)
(* command lines is one action: the script is synchronous and, for a known *)
(* identifier, has no step that fails on the directories modelled.         *)
(***************************************************************************)
DOCS_CONFIG ==
  ( "blind-auction" :>
      [ title       |-> "Blind Auction",
        description |-> "Sealed-bid auction with encrypted bids using FHEVM",
        category    |-> "Advanced Examples",
        concepts    |-> << "Encrypted bidding", "Access control",
                           "Public decryption", "Auction mechanics" >> ] )
  @@
  ( "fhe-counter" :>
      [ title       |-> "FHE Counter",
        description |-> "Simple encrypted counter demonstrating basic FHE operations",
        category    |-> "Basic Examples",
        concepts    |-> << "Encrypted state", "FHE arithmetic",
                           "Permission management" >> ] )

DocKeysReversed == << "fhe-counter", "blind-auction" >>

\* Object.keys(DOCS_CONFIG): the keys in the order the literal registers them
DocKeys == << "blind-auction", "fhe-counter" >>

NoDocConfig == [title |-> "", description |-> "", category |-> "", concepts |-> << >>]

\* contractMap with a bug: the counter's contract is looked up outside its category
contractMapFlat ==
  ( "blind-auction" :> <<"contracts", "auctions", "BlindAuction.sol">> )
  @@ ( "fhe-counter" :> <<"contracts", "FHECounter.sol">> )

contractMap ==
  ( "blind-auction" :> <<"contracts", "auctions", "BlindAuction.sol">> )
  @@ ( "fhe-counter" :> <<"contracts", "basic", "FHECounter.sol">> )

testMap ==
  ( "blind-auction" :> <<"test", "auctions", "BlindAuction.ts">> )
  @@ ( "fhe-counter" :> <<"test", "basic", "FHECounter.ts">> )

\* path.join(__dirname, '..', contractMap[exampleName] || ''): the repository root
\* itself for a name the map lacks
getContractPath(exampleName) ==
  IF exampleName \in DOMAIN contractMap THEN contractMap[exampleName] ELSE << >>

getTestPath(exampleName) ==
  IF exampleName \in DOMAIN testMap THEN testMap[exampleName] ELSE << >>

DocSources ==
  { getContractPath(n) : n \in DOMAIN DOCS_CONFIG }
  \cup { getTestPath(n) : n \in DOMAIN DOCS_CONFIG }

SUMMARY == <<"SUMMARY.md">>

\* path.join(outputDir, `${exampleName}.md`), relative to outputDir
DocPath(exampleName) == << exampleName \o ".md" >>

\* a markdown text kept as its characters, "\n" being the line break
Markdown(cs) == [type |-> "markdown", chars |-> cs]

\* the empty string a code section holds when its source file does not exist
NoCode == [type |-> "empty"]

ReadUnguarded(files, p) == SourceContent(p)

\* lines 57-66: fs.existsSync(p) ? fs.readFileSync(p, 'utf8') : ''
ReadIfExists(files, p) == IF p \in files THEN SourceContent(p) ELSE NoCode

\* generateMarkdownDoc(exampleName, config): the values the template literal
\* interpolates; the rest of the text is fixed
generateMarkdownDoc(exampleName, cfg, files) ==
  [ type         |-> "doc",
    name         |-> exampleName,
    title        |-> cfg.title,
    description  |-> cfg.description,
    category     |-> cfg.category,
    concepts     |-> cfg.concepts,
    contractCode |-> ReadIfExists(files, getContractPath(exampleName)),
    testCode     |-> ReadIfExists(files, getTestPath(exampleName)) ]

TitleChars ==
  ( "Blind Auction" :> <<"B","l","i","n","d"," ","A","u","c","t","i","o","n">> )
  @@ ( "FHE Counter" :> <<"F","H","E"," ","C","o","u","n","t","e","r">> )

\* lines 155-163: the skeleton of an index that does not exist yet
DefaultSummary ==
  <<"#"," ","S","u","m","m","a","r","y","\n","\n","#","#"," ","I","n","t",
      "r","o","d","u","c","t","i","o","n","\n","\n","*"," ","[","O","v","e",
      "r","v","i","e","w","]","(","R","E","A","D","M","E",".","m","d",")",
      "\n","\n","#","#"," ","E","x","a","m","p","l","e","s","\n","\n">>

\* line 167: `* [${config.title}](${exampleName}.md)`
entryLine(exampleName, cfg) ==
  <<"*"," ","[">> \o TitleChars[cfg.title] \o <<"]","(">> \o Chars[exampleName] \o <<
      ".","m","d",")">>

updateSummaryAppending(files, exampleName, cfg) ==
  LET summaryContent == IF SUMMARY \in DOMAIN files THEN files[SUMMARY].chars
                                                    ELSE DefaultSummary
  IN  (SUMMARY :> Markdown(summaryContent \o entryLine(exampleName, cfg) \o <<"\n">>))
      @@ files

\* updateSummary(outputDir, exampleName, config), on the files of outputDir
updateSummary(files, exampleName, cfg) ==
  LET summaryContent == IF SUMMARY \in DOMAIN files THEN files[SUMMARY].chars
                                                    ELSE DefaultSummary
      line           == entryLine(exampleName, cfg)
  IN  (SUMMARY :> Markdown(IF ~Includes(summaryContent, line)
                             THEN summaryContent \o line \o <<"\n">>
                             ELSE summaryContent))
      @@ files

\* lines 33-50 of generateDocs for a known identifier: outputDir made when absent,
\* the document written, the index updated
DocsWritten(tree, exampleName, sources) ==
  LET cfg == DOCS_CONFIG[exampleName]
      doc == generateMarkdownDoc(exampleName, cfg, sources)
  IN  Tree(tree.dirs \cup { << >> },
           updateSummary((DocPath(exampleName) :> doc) @@ tree.files,
                         exampleName, cfg))

\* the console.log lines of one generateDocs call
DocsLog(exampleName) ==
  << Line("generating", <<exampleName>>),
     Line("generated", DocPath(exampleName)),
     Line("updated summary", << >>) >>

\* lines 179-181: Object.keys(DOCS_CONFIG).forEach(generateDocs)
RECURSIVE GenerateEach(_, _, _)
GenerateEach(tree, keys, sources) ==
  IF keys = << >> THEN tree
  ELSE GenerateEach(DocsWritten(tree, Head(keys), sources), Tail(keys), sources)

RECURSIVE LogEach(_)
LogEach(keys) ==
  IF keys = << >> THEN << >> ELSE DocsLog(Head(keys)) \o LogEach(Tail(keys))

\* outputDir before the first run: absent; holding an index a user extended by
\* hand, with the pages it lists; the same with the counter's page already
\* listed; holding an index whose last line has no line break
UserSummary ==
  Markdown(DefaultSummary \o <<"*"," ","[","G","u","i","d","e","]","(","g",
      "u","i","d","e",".","m","d",")","\n">>)

ListedSummary ==
  Markdown(DefaultSummary \o <<"*"," ","[","F","H","E"," ","C","o","u","n",
      "t","e","r","]","(","f","h","e","-","c","o","u","n","t","e","r",".",
      "m","d",")","\n">>
                          \o <<"*"," ","[","G","u","i","d","e","]","(","g",
                              "u","i","d","e",".","m","d",")","\n">>)

UnterminatedSummary ==
  Markdown(<<"#"," ","S","u","m","m","a","r","y","\n","\n","*"," ","[","O",
      "v","e","r","v","i","e","w","]","(","R","E","A","D","M","E",".","m",
      "d",")","\n","*"," ","[","G","u","i","d","e","]","(","g","u","i","d",
      "e",".","m","d",")">>)

DocsDestinations ==
  { AbsentTree,
    Tree({ << >> }, (SUMMARY :> UserSummary)
                    @@ (<<"guide.md">> :> UserFile(<<"guide.md">>))),
    Tree({ << >> }, (SUMMARY :> ListedSummary)
                    @@ (<<"guide.md">> :> UserFile(<<"guide.md">>))
                    @@ (<<"fhe-counter.md">> :> UserFile(<<"fhe-counter.md">>))),
    Tree({ << >> }, (SUMMARY :> UnterminatedSummary)
                    @@ (<<"guide.md">> :> UserFile(<<"guide.md">>))) }

InitDocs ==
  /\ template = AbsentTree
  /\ repoFiles \in SUBSET DocSources
  /\ \E d \in DocsDestinations : destDirs = d.dirs /\ destFiles = d.files
  /\ pc = "idle"
  /\ kind = "none"
  /\ name = ""
  /\ config = NoDocConfig
  /\ exitCode = -1
  /\ stdout = << >>
  /\ stderr = << >>
  /\ runs = 0
  /\ pre = AbsentTree
  /\ wrote = FALSE
  /\ produced = [n \in DOMAIN DOCS_CONFIG |-> {}]
  /\ NoChain

\* what a run of generateDocs for a known identifier read and wrote
DocsRecord(exampleName, sources, files) ==
  [ sources |-> sources \cap { getContractPath(exampleName), getTestPath(exampleName) },
    doc     |-> files[DocPath(exampleName)] ]

\* node generate-docs.js <example-name> [output-dir]: CLI lines 199-202 and
\* generateDocs lines 27-51
GenerateDocs ==
  /\ pc \in {"idle", "exited"}
  /\ runs < MaxRuns
  /\ \E n \in DOMAIN DOCS_CONFIG \cup {"does-not-exist"} :
       /\ name' = n
       /\ IF n \notin DOMAIN DOCS_CONFIG
            THEN /\ stderr' = << Line("docs config not found", <<n>>) >>
                 /\ stdout' = << >>
                 /\ exitCode' = 1
                 /\ config' = NoDocConfig
                 /\ UNCHANGED <<destDirs, destFiles, produced>>
            ELSE LET t == DocsWritten(Tree(destDirs, destFiles), n, repoFiles)
                 IN  /\ destDirs' = t.dirs
                     /\ destFiles' = t.files
                     /\ stdout' = DocsLog(n)
                     /\ stderr' = << >>
                     /\ exitCode' = 0
                     /\ config' = DOCS_CONFIG[n]
                     /\ produced' = [produced EXCEPT
                                       ![n] = @ \cup { DocsRecord(n, repoFiles, t.files) }]
  /\ kind' = "docs"
  /\ runs' = runs + 1
  /\ pre' = Tree(destDirs, destFiles)
  /\ pc' = "exited"
  /\ UNCHANGED <<template, repoFiles, wrote>>
  /\ UNCHANGED chain

\* node generate-docs.js --all: CLI lines 197-198 and generateAllDocs lines 176-184
GenerateAllDocs ==
  /\ pc \in {"idle", "exited"}
  /\ runs < MaxRuns
  /\ LET t == GenerateEach(Tree(destDirs, destFiles), DocKeys, repoFiles)
     IN  /\ destDirs' = t.dirs
         /\ destFiles' = t.files
         /\ produced' = [n \in DOMAIN produced |->
                           produced[n] \cup { DocsRecord(n, repoFiles, t.files) }]
  /\ stdout' = << Line("generating all", << >>) >> \o LogEach(DocKeys)
                 \o << Line("all generated", << >>) >>
  /\ stderr' = << >>
  /\ exitCode' = 0
  /\ kind' = "docs"
  /\ name' = "--all"
  /\ config' = NoDocConfig
  /\ runs' = runs + 1
  /\ pre' = Tree(destDirs, destFiles)
  /\ pc' = "exited"
  /\ UNCHANGED <<template, repoFiles, wrote>>
  /\ UNCHANGED chain

\* node generate-docs.js, or with --help: CLI lines 190-195
DocsUsage ==
  /\ pc \in {"idle", "exited"}
  /\ runs < MaxRuns
  /\ stdout' = << Line("usage", <<"docs">>), Line("available", <<"docs">>) >>
  /\ stderr' = << >>
  /\ exitCode' = 0
  /\ kind' = "docs"
  /\ name' = "--help"
  /\ config' = NoDocConfig
  /\ runs' = runs + 1
  /\ pre' = Tree(destDirs, destFiles)
  /\ pc' = "exited"
  /\ UNCHANGED <<template, repoFiles, destDirs, destFiles, wrote, produced>>
  /\ UNCHANGED chain

\* after a run a contract or test source is added to the checkout or removed
EditSources ==
  /\ pc = "exited"
  /\ \E p \in DocSources :
       repoFiles' = IF p \in repoFiles THEN repoFiles \ {p} ELSE repoFiles \cup {p}
  /\ pc' = "idle"
  /\ UNCHANGED <<template, destDirs, destFiles, kind, name, config, exitCode,
                 stdout, stderr, runs, pre, wrote, produced>>
  /\ UNCHANGED chain

NextDocs == GenerateDocs \/ GenerateAllDocs \/ DocsUsage \/ EditSources

SpecDocs == InitDocs /\ [][NextDocs]_vars

(***************************************************************************)
(* Vocabulary of the claims about the documentation generator.             *)
(***************************************************************************)
\* the characters of the index in a directory's files, none when it is absent
IndexOf(files) == IF SUMMARY \in DOMAIN files THEN files[SUMMARY].chars ELSE << >>

\* the places where text t occurs in cs
OccurrencesAt(cs, t) ==
  { i \in 1 .. (Len(cs) - Len(t) + 1) : SubSeq(cs, i, i + Len(t) - 1) = t }

\* the places where t is a whole line of cs
LinesAt(cs, t) ==
  { i \in OccurrencesAt(cs, t) :
      /\ i = 1 \/ cs[i - 1] = "\n"
      /\ i + Len(t) = Len(cs) + 1 \/ cs[i + Len(t)] = "\n" }

Entry(n) == entryLine(n, DOCS_CONFIG[n])

EntryLines(files, n) == Cardinality(LinesAt(IndexOf(files), Entry(n)))

\* the run that has just ended called generateDocs for n and succeeded
GeneratedNow(n) ==
  /\ Succeeded /\ kind = "docs"
  /\ name = n \/ name = "--all"

\* an index is proper when it is absent, or ends with a line break and holds each
\* example's entry text at most once and only as a whole line
ProperIndex(files) ==
  \/ SUMMARY \notin DOMAIN files
  \/ /\ IndexOf(files) # << >>
     /\ IndexOf(files)[Len(IndexOf(files))] = "\n"
     /\ \A m \in DOMAIN DOCS_CONFIG :
          /\ OccurrencesAt(IndexOf(files), Entry(m)) = LinesAt(IndexOf(files), Entry(m))
          /\ Cardinality(LinesAt(IndexOf(files), Entry(m))) <= 1

\* all documents written for one identifier from the same sources are equal
SameSourcesSameDocument ==
  \A n \in DOMAIN DOCS_CONFIG :
    \A a, b \in produced[n] : a.sources = b.sources => a.doc = b.doc

(***************************************************************************)
(* C12.  As claimed: once generateDocs has run for an identifier into the  *)
(* output directory, however many times, SUMMARY.md contains exactly one   *)
(* entry line for that identifier, and the documents written for it from   *)
(* unchanged sources all have the same content.                            *)
(***************************************************************************)
C12_ExactlyOneEntryLine ==
  /\ \A n \in DOMAIN DOCS_CONFIG :
       produced[n] # {} => EntryLines(destFiles, n) = 1
  /\ SameSourcesSameDocument

(***************************************************************************)
(* C12, amended.  A run of generateDocs for an identifier into a directory *)
(* whose index was proper leaves a proper index with exactly one entry     *)
(* line for the identifier; whatever the index held, the entry text is in  *)
(* it after the run, a run that finds the text there leaves the index as   *)
(* it was, and documents written from unchanged sources are equal.         *)
(***************************************************************************)
C12_OneEntryLineInProperIndex ==
  /\ \A n \in DOMAIN DOCS_CONFIG :
       GeneratedNow(n)
         => /\ Includes(IndexOf(destFiles), Entry(n))
            /\ ProperIndex(pre.files)
                 => ProperIndex(destFiles) /\ EntryLines(destFiles, n) = 1
            /\ (name = n /\ Includes(IndexOf(pre.files), Entry(n)))
                 => IndexOf(destFiles) = IndexOf(pre.files)
  /\ SameSourcesSameDocument

\* the second of two runs for the counter, the first having made the index
C12_Witness ==
  /\ GeneratedNow("fhe-counter")
  /\ name = "fhe-counter"
  /\ runs = 2
  /\ At(pre.files, DocPath(name)) = destFiles[DocPath(name)]
  /\ IndexOf(pre.files) = DefaultSummary \o Entry(name) \o <<"\n">>
  /\ IndexOf(destFiles) = IndexOf(pre.files)

(***************************************************************************)
(* C13.  As claimed: after generate-docs --all the index contains exactly  *)
(* one entry line per example of DOCS_CONFIG, and the entry lines stand in *)
(* the order the catalog registers the examples: blind-auction before      *)
(* fhe-counter.                                                            *)
(***************************************************************************)
AllRunEnded == Succeeded /\ kind = "docs" /\ name = "--all"

OneLineEachInOrder(files) ==
  /\ \A n \in DOMAIN DOCS_CONFIG : EntryLines(files, n) = 1
  /\ \A a \in LinesAt(IndexOf(files), Entry("blind-auction")) :
       \A b \in LinesAt(IndexOf(files), Entry("fhe-counter")) : a < b

C13_AllEntriesInCatalogOrder ==
  AllRunEnded => OneLineEachInOrder(destFiles)

(***************************************************************************)
(* C13, amended.  After generate-docs --all the index holds the entry text *)
(* of every example; when before the run the index was proper and held no  *)
(* example's entry text, it contains exactly one entry line per example,   *)
(* the lines standing in catalog registration order after what the index   *)
(* held before.                                                            *)
(***************************************************************************)
NoEntryYet(files) ==
  \A m \in DOMAIN DOCS_CONFIG : ~Includes(IndexOf(files), Entry(m))

C13_AllEntriesInOrderFromFreshIndex ==
  AllRunEnded
    => /\ \A n \in DOMAIN DOCS_CONFIG : Includes(IndexOf(destFiles), Entry(n))
       /\ (ProperIndex(pre.files) /\ NoEntryYet(pre.files))
            => /\ OneLineEachInOrder(destFiles)
               /\ IndexOf(destFiles) =
                    (IF SUMMARY \in DOMAIN pre.files THEN IndexOf(pre.files)
                                                     ELSE DefaultSummary)
                    \o Entry("blind-auction") \o <<"\n">>
                    \o Entry("fhe-counter") \o <<"\n">>

\* --all into a directory whose index a user had extended by hand
C13_Witness ==
  /\ AllRunEnded
  /\ At(pre.files, SUMMARY) = UserSummary
  /\ OneLineEachInOrder(destFiles)
  /\ IndexOf(destFiles) # IndexOf(pre.files)
  /\ \A n \in DOMAIN DOCS_CONFIG : At(destFiles, DocPath(n)).type = "doc"

(***************************************************************************)
(* C14.  A generateDocs run for a known identifier whose contract or test  *)
(* source file is missing is not an error: it ends with status 0 and       *)
(* nothing on the error stream, the document is written, the code section  *)
(* of each missing source is empty and that of each present source holds   *)
(* the source, and the index holds the identifier's entry.                 *)
(***************************************************************************)
DocsRunFor(n) == Ended /\ kind = "docs" /\ (name = n \/ name = "--all")

C14_MissingSourceLeavesSectionEmpty ==
  \A n \in DOMAIN DOCS_CONFIG :
    (DocsRunFor(n) /\ ~({getContractPath(n), getTestPath(n)} \subseteq repoFiles))
      => /\ exitCode = 0
         /\ stderr = << >>
         /\ At(destFiles, DocPath(n)).type = "doc"
         /\ destFiles[DocPath(n)].contractCode =
              (IF getContractPath(n) \in repoFiles
                 THEN SourceContent(getContractPath(n)) ELSE NoCode)
         /\ destFiles[DocPath(n)].testCode =
              (IF getTestPath(n) \in repoFiles
                 THEN SourceContent(getTestPath(n)) ELSE NoCode)
         /\ Includes(IndexOf(destFiles), Entry(n))

\* the auction's page written without its contract, into a directory made by the run
C14_Witness ==
  /\ DocsRunFor("blind-auction")
  /\ name = "blind-auction"
  /\ getContractPath(name) \notin repoFiles
  /\ getTestPath(name) \in repoFiles
  /\ pre = AbsentTree
  /\ exitCode = 0
  /\ destFiles[DocPath(name)].contractCode = NoCode
  /\ destFiles[DocPath(name)].testCode = SourceContent(getTestPath(name))
  /\ EntryLines(destFiles, name) = 1

(***************************************************************************)
(* C15.  For each of the three entry points, a request for an identifier   *)
(* that is not in the entry point's catalog ends with a non-zero status    *)
(* and has printed the list of that catalog's identifiers to the user.     *)
(***************************************************************************)
CatalogOf(k) == IF k = "docs" THEN DOCS_CONFIG ELSE Catalog(k)

UnknownRequest ==
  /\ Ended
  /\ kind \in {"example", "category", "docs"}
  /\ name \notin DOMAIN CatalogOf(kind) \cup {"", "--all", "--help"}

\* the listing of catalog k's identifiers is among the lines printed
Listed(lines, k) ==
  \E i \in 1 .. Len(lines) : lines[i] = Line("available", <<k>>)

C15_UnknownIdentifierListsCatalog ==
  UnknownRequest
    => /\ exitCode # 0
       /\ Listed(stdout \o stderr, kind)

(***************************************************************************)
(* C16.  A materialize command line that names an unknown identifier or    *)
(* has fewer than two arguments exits with status 1 having printed the     *)
(* listing of valid identifiers to standard error and not to standard      *)
(* output; with fewer than two arguments the filesystem is as it was.      *)
(***************************************************************************)
\* the command line had fewer than two arguments: no identifier was looked up
WrongArgumentCount ==
  Ended /\ kind \in {"example", "category"} /\ name = ""

C16_ListingOnStandardError ==
  (UnknownRequest \/ WrongArgumentCount) /\ kind \in {"example", "category"}
    => /\ exitCode = 1
       /\ Listed(stderr, kind)
       /\ ~Listed(stdout, kind)
       /\ WrongArgumentCount => (destDirs = pre.dirs /\ destFiles = pre.files)

(***************************************************************************)
(* C17.  Every example identifier in the examples sequence of a category   *)
(* of CATEGORIES is a key of EXAMPLES_MAP: whichever category a run of the *)
(* category script has resolved, each identifier its entry lists is a      *)
(* registered example.                                                     *)
(***************************************************************************)
C17_CategoryExamplesRegistered ==
  (kind = "category" /\ name \in DOMAIN CATEGORIES)
    => /\ config = CATEGORIES[name]
       /\ \A i \in 1 .. Len(config.examples) :
            config.examples[i] \in DOMAIN EXAMPLES_MAP

(***************************************************************************)
(* The catalogs' path literals.  The catalogs above hold each path as its  *)
(* segments; here are the literals as the scripts write them, with the     *)
(* splitting and the normalisation path.join applies to them.              *)
(***************************************************************************)
PathTextEscaping ==
  ( <<"auctions", "BlindAuction.sol">> :> <<"a","u","c","t","i","o","n","s",
      "/","B","l","i","n","d","A","u","c","t","i","o","n",".","s","o","l">> )
  @@ ( <<"auctions", "BlindAuction.ts">> :> <<"a","u","c","t","i","o","n",
      "s","/","B","l","i","n","d","A","u","c","t","i","o","n",".","t","s">> )
  @@ ( <<"basic", "FHECounter.sol">> :> <<".",".","/","b","a","s","i","c",
      "/","F","H","E","C","o","u","n","t","e","r",".","s","o","l">> )
  @@ ( <<"basic", "FHECounter.ts">> :> <<"b","a","s","i","c","/","F","H",
      "E","C","o","u","n","t","e","r",".","t","s">> )

\* example lines 15-16 and 21-22, category lines 17-18 and 23-24
PathText ==
  ( <<"auctions", "BlindAuction.sol">> :> <<"a","u","c","t","i","o","n","s",
      "/","B","l","i","n","d","A","u","c","t","i","o","n",".","s","o","l">> )
  @@ ( <<"auctions", "BlindAuction.ts">> :> <<"a","u","c","t","i","o","n",
      "s","/","B","l","i","n","d","A","u","c","t","i","o","n",".","t","s">> )
  @@ ( <<"basic", "FHECounter.sol">> :> <<"b","a","s","i","c","/","F","H",
      "E","C","o","u","n","t","e","r",".","s","o","l">> )
  @@ ( <<"basic", "FHECounter.ts">> :> <<"b","a","s","i","c","/","F","H",
      "E","C","o","u","n","t","e","r",".","t","s">> )

\* the pieces of cs between its "/" separators, in order
Segments(cs) ==
  LET cuts   == {0} \cup { i \in 1 .. Len(cs) : cs[i] = "/" } \cup { Len(cs) + 1 }
      Cut(k) == CHOOSE c \in cuts : Cardinality({ d \in cuts : d < c }) = k - 1
  IN  [ k \in 1 .. (Cardinality(cuts) - 1) |->
          SubSeq(cs, Cut(k) + 1, Cut(k + 1) - 1) ]

\* path.join's normalisation of a relative path: empty and "." segments dropped,
\* ".." removing the segment before it, or kept when there is none
RECURSIVE Normalized(_, _)
Normalized(segs, acc) ==
  IF segs = << >> THEN acc
  ELSE LET s == Head(segs)
       IN  IF s = << >> \/ s = <<".">> THEN Normalized(Tail(segs), acc)
           ELSE IF s = <<".", ".">>
             THEN Normalized(Tail(segs),
                             IF acc = << >> \/ acc[Len(acc)] = <<".", ".">>
                               THEN Append(acc, s)
                               ELSE SubSeq(acc, 1, Len(acc) - 1))
           ELSE Normalized(Tail(segs), Append(acc, s))

\* path.join(__dirname, '..', sub, text) relative to the repository root
JoinedSource(sub, text) == Normalized(<<sub>> \o Segments(text), << >>)

(***************************************************************************)
(* C18.  For every identifier registered in either catalog the lookup      *)
(* returns the entry, and every contract and test path of the entry is a   *)
(* well-formed relative path: it does not start with "/", has no ".."      *)
(* segment, and joined to contracts/ or test/ it names a file under that   *)
(* directory, the one the run reads.                                       *)
(***************************************************************************)
SubChars(sub) ==
  IF sub = "contracts" THEN <<"c","o","n","t","r","a","c","t","s">> ELSE <<
      "t","e","s","t">>

WellFormedRelative(a) ==
  LET text == PathText[a.path]
      segs == Segments(text)
  IN  /\ text # << >>
      /\ text[1] # "/"
      /\ \A i \in 1 .. Len(segs) : segs[i] \notin { << >>, <<".">>, <<".", ".">> }
      /\ JoinedSource(SubChars(a.sub), text)
           = [ i \in 1 .. Len(Src(a)) |->
                 IF i = 1 THEN SubChars(a.sub) ELSE Chars[Src(a)[i]] ]

\* the lookup of lines 29-35 has just returned
LookedUp == pc = "mkdir"

C18_CatalogPathsWellFormed ==
  /\ (Known /\ pc # "idle")
       => /\ config = Catalog(kind)[name]
          /\ \A i \in 1 .. Len(stderr) : stderr[i].msg # "not found"
  /\ (Known /\ LookedUp)
       => /\ RunArtifacts # {}
          /\ \A a \in RunArtifacts : WellFormedRelative(a)

\* a category run that copied an artifact from under contracts/
C18_Witness ==
  /\ Succeeded /\ Known
  /\ kind = "category"
  /\ \E a \in PresentArtifacts :
       /\ a.sub = "contracts"
       /\ At(destFiles, Dst(a)) = SourceContent(Src(a))
       /\ WellFormedRelative(a)

(***************************************************************************)
(* contracts/auctions/BlindAuction.sol.  Every external call is one        *)
(* action: a transaction from an account, mined at the current block       *)
(* timestamp, which either runs to its end or reverts, leaving the storage *)
(* as it was.  An euint32 is kept as the value it encrypts, 0 being the    *)
(* uninitialised handle.  Time is counted in units of the bidding time.    *)
(***************************************************************************)
MaxTime == 3

MaxBiddingTime == 2

\* three of the signers of the tests, the first of which deploys there
Accounts == {"owner", "bidder1", "bidder2"}

ZeroAddress == "address(0)"

\* the amounts the tests bid
BidAmounts == {1000, 1500}

NoBid == [amount |-> 0, exists |-> FALSE]

\* no script is running: the state of the scripts' variables on the chain
NoScripts ==
  /\ template = AbsentTree
  /\ repoFiles = {}
  /\ destDirs = {}
  /\ destFiles = << >>
  /\ pc = "idle"
  /\ kind = "none"
  /\ name = ""
  /\ config = NoConfig
  /\ exitCode = -1
  /\ stdout = << >>
  /\ stderr = << >>
  /\ runs = 0
  /\ pre = AbsentTree
  /\ wrote = FALSE
  /\ produced = << >>

storage == <<bids, bidders, owner, auctionEndTime, auctionEnded, highestBidder,
             highestBid, publicHandles>>

Event(e, a) == [name |-> e, arg |-> a]

NoReceipt == [fn |-> "none"]

\* constructor(uint256 _biddingTime), lines 41-44, called by any of the accounts
InitAuction ==
  /\ NoScripts
  /\ bids = [a \in Accounts |-> NoBid]
  /\ bidders = << >>
  /\ owner \in Accounts
  /\ blockTimestamp = 0
  /\ \E _biddingTime \in 0 .. MaxBiddingTime :
       auctionEndTime = blockTimestamp + _biddingTime
  /\ auctionEnded = FALSE
  /\ highestBidder = ZeroAddress
  /\ highestBid = 0
  /\ publicHandles = {}
  /\ receipt = NoReceipt

\* a failed require, or a revert inside the FHE library: the storage is as before
Revert(fn, sender, why) ==
  /\ receipt' = [fn |-> fn, sender |-> sender, status |-> "reverted",
                 reason |-> why, events |-> << >>]
  /\ UNCHANGED storage

Return(fn, sender, events) ==
  receipt' = [fn |-> fn, sender |-> sender, status |-> "success",
              reason |-> "", events |-> events]

\* modifier onlyOwner, lines 30-33: the reason it reverts with, "" when it passes
onlyOwner(sender) ==
  IF sender = owner THEN "" ELSE "Only owner can call this"

auctionActiveInclusive ==
  IF ~(blockTimestamp <= auctionEndTime) THEN "Auction has ended"
  ELSE IF auctionEnded THEN "Auction already ended"
  ELSE ""

\* modifier auctionActive, lines 35-39
auctionActive ==
  IF ~(blockTimestamp < auctionEndTime) THEN "Auction has ended"
  ELSE IF auctionEnded THEN "Auction already ended"
  ELSE ""

placeBidAlwaysPushing(sender, amount, proofVerifies) ==
  /\ IF auctionActive # "" THEN Revert("placeBid", sender, auctionActive)
     ELSE IF ~proofVerifies THEN Revert("placeBid", sender, "invalid input proof")
     ELSE /\ bidders' = Append(bidders, sender)
          /\ bids' = [bids EXCEPT ![sender] = [amount |-> amount, exists |-> TRUE]]
          /\ Return("placeBid", sender, << Event("BidPlaced", sender) >>)
          /\ UNCHANGED <<owner, auctionEndTime, auctionEnded, highestBidder,
                         highestBid, publicHandles>>
  /\ UNCHANGED <<blockTimestamp, scripts>>

\* placeBid(encryptedAmount, inputProof), lines 51-72; FHE.fromExternal reverts on
\* a proof that does not verify
placeBid(sender, amount, proofVerifies) ==
  /\ IF auctionActive # "" THEN Revert("placeBid", sender, auctionActive)
     ELSE IF ~proofVerifies THEN Revert("placeBid", sender, "invalid input proof")
     ELSE /\ bidders' = IF ~bids[sender].exists THEN Append(bidders, sender)
                                                ELSE bidders
          /\ bids' = [bids EXCEPT ![sender] = [amount |-> amount, exists |-> TRUE]]
          /\ Return("placeBid", sender, << Event("BidPlaced", sender) >>)
          /\ UNCHANGED <<owner, auctionEndTime, auctionEnded, highestBidder,
                         highestBid, publicHandles>>
  /\ UNCHANGED <<blockTimestamp, scripts>>

\* lines 94-104: the loop over bidders[1..], FHE.select keeping the greater amount
RECURSIVE SelectHighest(_, _)
SelectHighest(i, highest) ==
  IF i > Len(bidders) THEN highest
  ELSE LET currentBid == bids[bidders[i]].amount
           isHigher   == currentBid > highest
       IN  SelectHighest(i + 1, IF isHigher THEN currentBid ELSE highest)

endAuctionAtAnyTime(sender) ==
  /\ IF onlyOwner(sender) # "" THEN Revert("endAuction", sender, onlyOwner(sender))
     ELSE IF auctionEnded THEN Revert("endAuction", sender, "Auction already ended")
     ELSE /\ auctionEnded' = TRUE
          /\ Return("endAuction", sender, << Event("AuctionEnded", ZeroAddress) >>)
          /\ UNCHANGED <<bids, bidders, owner, auctionEndTime, publicHandles,
                         highestBidder, highestBid>>
  /\ UNCHANGED <<blockTimestamp, scripts>>

\* endAuction(), lines 78-107
endAuction(sender) ==
  /\ IF onlyOwner(sender) # "" THEN Revert("endAuction", sender, onlyOwner(sender))
     ELSE IF ~(blockTimestamp >= auctionEndTime)
       THEN Revert("endAuction", sender, "Auction still active")
     ELSE IF auctionEnded THEN Revert("endAuction", sender, "Auction already ended")
     ELSE /\ auctionEnded' = TRUE
          /\ IF Len(bidders) = 0
               THEN /\ Return("endAuction", sender,
                              << Event("AuctionEnded", ZeroAddress) >>)
                    /\ UNCHANGED <<highestBidder, highestBid>>
               ELSE /\ highestBidder' = bidders[1]
                    /\ highestBid' = SelectHighest(2, bids[bidders[1]].amount)
                    /\ Return("endAuction", sender,
                              << Event("AuctionEnded", bidders[1]) >>)
          /\ UNCHANGED <<bids, bidders, owner, auctionEndTime, publicHandles>>
  /\ UNCHANGED <<blockTimestamp, scripts>>

\* getMyBid(), lines 113-117
getMyBid(sender) ==
  /\ IF ~bids[sender].exists THEN Revert("getMyBid", sender, "No bid found")
     ELSE /\ publicHandles' = publicHandles \cup { bids[sender].amount }
          /\ Return("getMyBid", sender, << >>)
          /\ UNCHANGED <<bids, bidders, owner, auctionEndTime, auctionEnded,
                         highestBidder, highestBid>>
  /\ UNCHANGED <<blockTimestamp, scripts>>

\* getWinningBid(), lines 123-127; no account is the contract itself
getWinningBid(sender) ==
  /\ IF ~auctionEnded THEN Revert("getWinningBid", sender, "Auction not ended")
     ELSE IF ~(owner = sender) THEN Revert("getWinningBid", sender, "Not authorized")
     ELSE /\ publicHandles' = publicHandles \cup { highestBid }
          /\ Return("getWinningBid", sender, << >>)
          /\ UNCHANGED <<bids, bidders, owner, auctionEndTime, auctionEnded,
                         highestBidder, highestBid>>
  /\ UNCHANGED <<blockTimestamp, scripts>>

\* isActive(), lines 132-134
isActive == blockTimestamp < auctionEndTime /\ ~auctionEnded

\* getBidderCount(), lines 139-141
getBidderCount == Len(bidders)

\* the next block is mined one unit of time later
Mine ==
  /\ blockTimestamp < MaxTime
  /\ blockTimestamp' = blockTimestamp + 1
  /\ UNCHANGED <<storage, receipt, scripts>>

NextAuction ==
  \/ \E s \in Accounts, v \in BidAmounts, ok \in BOOLEAN : placeBid(s, v, ok)
  \/ \E s \in Accounts : endAuction(s)
  \/ \E s \in Accounts : getMyBid(s)
  \/ \E s \in Accounts : getWinningBid(s)
  \/ Mine

SpecAuction == InitAuction /\ [][NextAuction]_vars

(***************************************************************************)
(* Vocabulary of the claims about the contract.                            *)
(***************************************************************************)
\* the step is a transaction calling fn: it leaves a receipt and not the clock
Transaction(fn) == receipt'.fn = fn /\ blockTimestamp' = blockTimestamp

(***************************************************************************)
(* C19.  A call of endAuction succeeds exactly when the caller is the      *)
(* owner, the block timestamp is at or past auctionEndTime and the auction *)
(* has not been ended; every other call reverts and leaves the storage     *)
(* unchanged.  auctionEnded changes only from false to true, only by a     *)
(* successful endAuction, never goes back to false, and is never true at a *)
(* block timestamp before auctionEndTime.                                  *)
(***************************************************************************)
C19_EndAuctionOnceAfterEnd ==
  [][ /\ Transaction("endAuction")
        => IF /\ receipt'.sender = owner
              /\ blockTimestamp >= auctionEndTime
              /\ ~auctionEnded
             THEN receipt'.status = "success" /\ auctionEnded'
             ELSE receipt'.status = "reverted" /\ UNCHANGED storage
      /\ auctionEnded => auctionEnded'
      /\ auctionEnded' # auctionEnded
           => Transaction("endAuction") /\ receipt'.status = "success"
      /\ auctionEnded' => blockTimestamp' >= auctionEndTime' ]_vars

\* the owner's second endAuction, after one that closed an auction with bids
C19_Witness ==
  /\ auctionEnded
  /\ bidders # << >>
  /\ highestBidder = bidders[1]
  /\ blockTimestamp >= auctionEndTime
  /\ receipt = [fn |-> "endAuction", sender |-> owner, status |-> "reverted",
                reason |-> "Auction already ended", events |-> << >>]

(***************************************************************************)
(* C20.  A call of placeBid at a block timestamp at or past auctionEndTime, *)
(* or after the auction has been ended, reverts and leaves bids and        *)
(* bidders unchanged; so no step taken once auctionEndTime has been        *)
(* reached changes bids or bidders.                                        *)
(***************************************************************************)
C20_NoBidAfterEndTime ==
  [][ /\ (Transaction("placeBid") /\ (blockTimestamp >= auctionEndTime \/ auctionEnded))
        => /\ receipt'.status = "reverted"
           /\ UNCHANGED <<bids, bidders>>
      /\ blockTimestamp >= auctionEndTime => UNCHANGED <<bids, bidders>> ]_vars

\* a bid refused at the end time exactly, the bids placed before it still stored
C20_Witness ==
  /\ blockTimestamp = auctionEndTime
  /\ receipt.fn = "placeBid"
  /\ receipt.status = "reverted"
  /\ receipt.reason = "Auction has ended"
  /\ Len(bidders) = 2
  /\ \A i \in 1 .. Len(bidders) : bids[bidders[i]].exists
  /\ receipt.sender \notin { bidders[i] : i \in 1 .. Len(bidders) }

(***************************************************************************)
(* C21.  In every state getBidderCount is the number of distinct addresses *)
(* holding a bid: the bidders list has no duplicates and an address is in  *)
(* it exactly when bids[address].exists; and a successful placeBid stores  *)
(* the sender's bid, appends the sender when it had none, and leaves the   *)
(* list as it is when the sender had one, no other bid being touched.      *)
(***************************************************************************)
BidderSet == { bidders[i] : i \in 1 .. Len(bidders) }

BiddersMatchBids ==
  /\ \A i, j \in 1 .. Len(bidders) : bidders[i] = bidders[j] => i = j
  /\ \A a \in Accounts : a \in BidderSet <=> bids[a].exists
  /\ getBidderCount = Cardinality({ a \in Accounts : bids[a].exists })

C21_BiddersAreTheDistinctBidders ==
  [][ /\ BiddersMatchBids
      /\ BiddersMatchBids'
      /\ (Transaction("placeBid") /\ receipt'.status = "success")
           => /\ bids'[receipt'.sender].exists
              /\ bids'[receipt'.sender].amount \in BidAmounts
              /\ \A a \in Accounts \ {receipt'.sender} : bids'[a] = bids[a]
              /\ bidders' = IF bids[receipt'.sender].exists
                              THEN bidders
                              ELSE Append(bidders, receipt'.sender) ]_vars

\* the first bidder has bid again after a second one joined, at another amount
C21_Witness ==
  /\ getBidderCount = 2
  /\ receipt.fn = "placeBid"
  /\ receipt.status = "success"
  /\ receipt.sender = bidders[1]
  /\ bids[bidders[1]].amount = 1500
  /\ bids[bidders[2]].amount = 1000

(***************************************************************************)
(* C22.  Once endAuction has succeeded the winner is determined: with no   *)
(* bids highestBidder stays the zero address, which AuctionEnded announces;*)
(* with bids, highestBid is the maximum of the stored amounts and          *)
(* highestBidder, the address AuctionEnded announces, is a bidder whose    *)
(* stored bid is that maximum.                                             *)
(***************************************************************************)
MaxStoredBid ==
  CHOOSE m \in { bids[a].amount : a \in BidderSet } :
    \A a \in BidderSet : bids[a].amount <= m

Announced ==
  (receipt.fn = "endAuction" /\ receipt.status = "success")
    => receipt.events = << Event("AuctionEnded", highestBidder) >>

C23_ArtifactOverlayWins ==
  (Succeeded /\ Known) =>
    \A a \in PresentArtifacts : At(destFiles, Dst(a)) = SourceContent(Src(a))

\* a run that succeeded over a template shipping its own file at an artifact's path
C23_Witness ==
  /\ Succeeded
  /\ Known
  /\ \E a \in PresentArtifacts :
       /\ At(template.files, Dst(a)) = TemplateFile(Dst(a))
       /\ At(destFiles, Dst(a)) = SourceContent(Src(a))

(***************************************************************************)
(* C24.  Materialization is idempotent on the destination tree: a run that *)
(* starts on the tree a successful run of the same request left succeeds   *)
(* and leaves that tree, the same paths with the same contents; for a      *)
(* category the utility directory is then present once, at test/utils,     *)
(* with the relative paths of the source utility tree.                     *)
(***************************************************************************)
\* the run started on what a successful run of this request left: the README that
\* request's run wrote and the manifest it produced are in the starting tree
RepeatedRun ==
  /\ Known
  /\ At(pre.files, README) = ReadmeText(kind, name, config)
  /\ At(pre.files, MANIFEST) \in produced[<<kind, name>>]

UtilsPresentOnce ==
  (kind = "category" /\ UtilsFiles \subseteq repoFiles)
    => { p \in DOMAIN destFiles : IsUnder(p, UtilsDest) }
         = { Join(UtilsDest, SubSeq(p, Len(UtilsSrc) + 1, Len(p))) : p \in UtilsFiles }

C24_MaterializationIdempotent ==
  (Ended /\ RepeatedRun)
    => /\ exitCode = 0
       /\ Tree(destDirs, destFiles) = pre
       /\ UtilsPresentOnce

(***************************************************************************)
(* C25.  The manifest rewrite changes only name, description and keywords: *)
(* every other field of the manifest it read is in the manifest it wrote,  *)
(* with the same value, and the manifest it wrote has no field beyond      *)
(* those it read and these three.                                          *)
(***************************************************************************)
RewrittenKeys == {"name", "description", "keywords"}

KeysOf(obj) == { obj[i].key : i \in 1 .. Len(obj) }

C25_RewriteTouchesThreeFields ==
  wrote =>
    LET before == JSONParse(pre.files[MANIFEST])
        after  == JSONParse(destFiles[MANIFEST])
    IN  /\ \A k \in KeysOf(before) \ RewrittenKeys :
             HasKey(after, k) /\ Get(after, k) = Get(before, k)
        /\ KeysOf(after) = KeysOf(before) \cup RewrittenKeys
        /\ \A k \in KeysOf(after) : Occurrences([i \in 1 .. Len(after) |-> after[i].key], k) = 1

\* a manifest with version and scripts but no description and no keywords was rewritten
C25_Witness ==
  /\ wrote
  /\ pre.files[MANIFEST] = TemplateManifestB
  /\ Get(JSONParse(destFiles[MANIFEST]), "version") = <<"0.0.1">>
  /\ Get(JSONParse(destFiles[MANIFEST]), "scripts") = <<"compile", "test">>
  /\ Get(JSONParse(destFiles[MANIFEST]), "name") # <<"template">>
  /\ HasKey(JSONParse(destFiles[MANIFEST]), "keywords")

(***************************************************************************)
(* The doc emitter pointed at an output directory that is absent or empty, *)
(* its runs ending normally or being cut short between two statements of   *)
(* generateDocs: an exception of fs.mkdirSync or fs.writeFileSync, or the  *)
(* process being killed.                                                   *)
(***************************************************************************)
InitDocsFromEmpty ==
  /\ template = AbsentTree
  /\ repoFiles \in SUBSET DocSources
  /\ destDirs \in { {}, { << >> } }
  /\ destFiles = << >>
  /\ pc = "idle"
  /\ kind = "none"
  /\ name = ""
  /\ config = NoDocConfig
  /\ exitCode = -1
  /\ stdout = << >>
  /\ stderr = << >>
  /\ runs = 0
  /\ pre = AbsentTree
  /\ wrote = FALSE
  /\ produced = [n \in DOMAIN DOCS_CONFIG |-> {}]
  /\ NoChain

\* WrittenUpTo with a bug: the index is updated before the document is written
WrittenUpToIndexFirst(tree, exampleName, sources, at) ==
  IF at = "mkdir"
    THEN Tree(tree.dirs \cup { << >> }, tree.files)
    ELSE Tree(tree.dirs \cup { << >> },
              updateSummary(tree.files, exampleName, DOCS_CONFIG[exampleName]))

\* generateDocs for a known identifier cut short: at = "mkdir" after lines 37-40,
\* before the document is written; at = "doc" after line 46, before updateSummary
WrittenUpTo(tree, exampleName, sources, at) ==
  IF at = "mkdir"
    THEN Tree(tree.dirs \cup { << >> }, tree.files)
    ELSE Tree(tree.dirs \cup { << >> },
              (DocPath(exampleName)
                 :> generateMarkdownDoc(exampleName, DOCS_CONFIG[exampleName], sources))
              @@ tree.files)

\* a run for one identifier (all = FALSE) or with --all (all = TRUE) that ends in
\* its generateDocs call number done + 1, the calls before it having completed
InterruptedDocs ==
  /\ pc \in {"idle", "exited"}
  /\ runs < MaxRuns
  /\ \E all \in BOOLEAN, n \in DOMAIN DOCS_CONFIG, at \in {"mkdir", "doc"} :
       LET keys  == IF all THEN DocKeys ELSE << n >>
           done  == (CHOOSE i \in 1 .. Len(keys) : keys[i] = n) - 1
           first == SubSeq(keys, 1, done)
           t     == WrittenUpTo(GenerateEach(Tree(destDirs, destFiles), first, repoFiles),
                                n, repoFiles, at)
           wrt   == { first[i] : i \in 1 .. done } \cup (IF at = "doc" THEN {n} ELSE {})
       IN  /\ destDirs' = t.dirs
           /\ destFiles' = t.files
           /\ produced' = [m \in DOMAIN produced |->
                             IF m \in wrt /\ DocPath(m) \in DOMAIN t.files
                               THEN produced[m] \cup { DocsRecord(m, repoFiles, t.files) }
                               ELSE produced[m]]
           /\ stdout' = (IF all THEN << Line("generating all", << >>) >> ELSE << >>)
                          \o LogEach(first) \o << Line("generating", <<n>>) >>
           /\ stderr' = << Line("uncaught", <<n, at>>) >>
           /\ name' = IF all THEN "--all" ELSE n
           /\ config' = IF all THEN NoDocConfig ELSE DOCS_CONFIG[n]
  /\ exitCode' = 1
  /\ kind' = "docs"
  /\ runs' = runs + 1
  /\ pre' = Tree(destDirs, destFiles)
  /\ pc' = "exited"
  /\ UNCHANGED <<template, repoFiles, wrote>>
  /\ UNCHANGED chain

NextDocsInterruptible ==
  \/ GenerateDocs
  \/ GenerateAllDocs
  \/ DocsUsage
  \/ EditSources
  \/ InterruptedDocs

SpecDocsFromEmpty == InitDocsFromEmpty /\ [][NextDocsInterruptible]_vars

(***************************************************************************)
(* C26.  Over all runs of the doc emitter on an output directory that was  *)
(* absent or empty, runs cut short included: in every state SUMMARY.md is  *)
(* the skeleton followed by entry lines of catalog identifiers only, and   *)
(* each of these refers to a document <identifier>.md that exists in the   *)
(* directory; and no step removes or reorders index text: the index before *)
(* a step is the beginning of the index after it.                          *)
(***************************************************************************)
\* the identifier sequences without repetition
EntryOrders ==
  { s \in UNION { [1 .. k -> DOMAIN DOCS_CONFIG] : k \in 0 .. Cardinality(DOMAIN DOCS_CONFIG) } :
      \A i, j \in DOMAIN s : s[i] = s[j] => i = j }

RECURSIVE EntriesText(_)
EntriesText(ids) ==
  IF ids = << >> THEN << >>
  ELSE (Entry(Head(ids)) \o <<"\n">>) \o EntriesText(Tail(ids))

EntriesResolve(files) ==
  \/ SUMMARY \notin DOMAIN files
  \/ \E ids \in EntryOrders :
       /\ files[SUMMARY].chars = DefaultSummary \o EntriesText(ids)
       /\ \A i \in DOMAIN ids : DocPath(ids[i]) \in DOMAIN files

IndexKept ==
  IndexOf(destFiles) = SubSeq(IndexOf(destFiles'), 1, Len(IndexOf(destFiles)))

C26_IndexEntriesResolve ==
  [][ EntriesResolve(destFiles) /\ EntriesResolve(destFiles') /\ IndexKept ]_vars

\* the counter's run completed, then the auction's run was cut short after its
\* document was written: the document is there, its index line is not
C26_Witness ==
  /\ Ended
  /\ exitCode = 1
  /\ stderr = << Line("uncaught", <<"blind-auction", "doc">>) >>
  /\ DocPath("blind-auction") \in DOMAIN destFiles
  /\ ~Includes(IndexOf(destFiles), Entry("blind-auction"))
  /\ Includes(IndexOf(destFiles), Entry("fhe-counter"))
  /\ DocPath("fhe-counter") \in DOMAIN destFiles

(***************************************************************************)
(* C27.  The catalog tables of the scripts agree: EXAMPLES_MAP,            *)
(* DOCS_CONFIG, contractMap and testMap register the same identifiers, and *)
(* for each the doc emitter's paths are 'contracts/' and 'test/' followed  *)
(* by EXAMPLES_MAP's contract and test path, never the empty path; so the  *)
(* document a run writes for an identifier embeds the files the            *)
(* materializer copies for it.                                             *)
(***************************************************************************)
MaterializedContract(n) == Join(<<"contracts">>, EXAMPLES_MAP[n].contract)

MaterializedTest(n) == Join(<<"test">>, EXAMPLES_MAP[n].test)

C27_CatalogTablesAgree ==
  /\ DOMAIN DOCS_CONFIG = DOMAIN EXAMPLES_MAP
  /\ DOMAIN contractMap = DOMAIN EXAMPLES_MAP
  /\ DOMAIN testMap = DOMAIN EXAMPLES_MAP
  /\ \A n \in DOMAIN EXAMPLES_MAP :
       /\ getContractPath(n) = MaterializedContract(n)
       /\ getTestPath(n) = MaterializedTest(n)
       /\ getContractPath(n) # << >> /\ getTestPath(n) # << >>
       /\ GeneratedNow(n)
            => /\ destFiles[DocPath(n)].contractCode
                    = ReadIfExists(repoFiles, MaterializedContract(n))
               /\ destFiles[DocPath(n)].testCode
                    = ReadIfExists(repoFiles, MaterializedTest(n))

\* the counter's page written with both sources there: it embeds the two files
\* createExample copies for 'fhe-counter'
C27_Witness ==
  /\ GeneratedNow("fhe-counter")
  /\ name = "fhe-counter"
  /\ destFiles[DocPath(name)].contractCode
       = SourceContent(<<"contracts", "basic", "FHECounter.sol">>)
  /\ destFiles[DocPath(name)].testCode
       = SourceContent(<<"test", "basic", "FHECounter.ts">>)
  /\ EXAMPLES_MAP[name].contract = <<"basic", "FHECounter.sol">>

=============================================================================
